---- MODULE Spec2Model ----
(***************************************************************************)
(* Model of the traffic-path repository:                                   *)
(*   graph-api    ShortestPathService.find_shortest_path (Dijkstra)        *)
(*   traffic-api  TrafficGenerator (ticks, incidents, configuration)       *)
(* SpecSolver runs find_shortest_path on bounded graphs; SpecTraffic runs  *)
(* the traffic generator.                                                  *)
(***************************************************************************)
EXTENDS Integers, Sequences, FiniteSets, TLC

VARIABLES
    \* ---- graph-api: one find_shortest_path request and its locals
    graph,          \* Graph: [vertices : Seq(id), edges : Seq([from, to, weight])]
    start_id,
    end_id,
    distances,      \* Dict[str, float]
    previous,       \* Dict[str, Optional[str]]
    pq,             \* heap of (distance, vertex_id), kept in push order
    visited,
    pc,             \* position inside find_shortest_path
    result,         \* ShortestPathResponse of the run that ended last
    first_result,   \* response of the first run on this graph
    first_graph,    \* the graph as handed to the first run
    runs,           \* completed runs on this graph
    \* ---- traffic-api: the TrafficGenerator
    config,         \* self.config
    vertices,       \* self.vertices
    edges,          \* self.edges
    incidents,      \* self.incidents
    update_count,   \* self.update_count
    now,            \* int(time.time() * 1000)
    incident_seq,   \* incidents created so far (the uuid4 of the next one)
    config_updates, \* calls of update_config so far
    response,       \* what the last call returned or raised
    \* ---- traffic-api: the tick task and a reader of the generator
    tick_pc,        \* position of the update_loop task inside _update_traffic
    tick_i,         \* position of the for loop over self.edges
    tick_draw,      \* the random draws of the tick in progress
    held,           \* the dict a get_current_state call handed out
    emit_state,     \* state of _emit_update: the dict handed to the observers
    notified,       \* the observers the tick has called, and how each call ended
    update_task,    \* self.update_task: a task of tasks, 0 for None
    tasks,          \* the update_loop tasks created so far, by state
    stopping,       \* the tasks a stop call is awaiting at line 484
    \* ---- traveller-api: one TravellerWorkflow
    workflow_id,    \* self.workflow_id
    current_node,   \* self.current_node
    end_node,       \* self.end_node
    route,          \* self.route
    route_index,    \* self.route_index
    status,         \* self.status
    interrupted,    \* self.interrupted
    wf_pc,          \* the await the run coroutine is suspended at
    plans,          \* completed _calculate_route calls
    unanswered,     \* an interrupt signal was handled and no replan began since
    queried,        \* the TravellerState the last get_state query returned
    \* ---- traveller-api: the routes and the workflow executions they address
    executions,     \* workflow id -> execution status, interrupt flag, TravellerState
    handler,        \* the route handler in progress
    listed,         \* the workflows list_workflows yields to the handler
    call_i,         \* how many of them the handler has dealt with
    interrupted_count,
    travellers,     \* the list get_travellers builds
    delivered,      \* ids whose signal or query returned without an error
    reply           \* what the last handler returned

solverVars == <<graph, start_id, end_id, distances, previous, pq, visited,
                pc, result, first_result, first_graph, runs>>

trafficVars == <<config, vertices, edges, incidents, update_count, now,
                 incident_seq, config_updates, response>>

taskVars == <<update_task, tasks, stopping>>

readerVars == <<tick_pc, tick_i, tick_draw, held, emit_state, notified, taskVars>>

navigatorVars == <<workflow_id, current_node, end_node, route, route_index, status,
                   interrupted, wf_pc, plans, unanswered, queried>>

registryVars == <<executions, handler, listed, call_i, interrupted_count, travellers,
                  delivered, reply>>

vars == <<graph, start_id, end_id, distances, previous, pq, visited,
          pc, result, first_result, first_graph, runs,
          config, vertices, edges, incidents, update_count, now,
          incident_seq, config_updates, response,
          tick_pc, tick_i, tick_draw, held, emit_state, notified,
          update_task, tasks, stopping,
          workflow_id, current_node, end_node, route, route_index, status,
          interrupted, wf_pc, plans, unanswered, queried,
          executions, handler, listed, call_i, interrupted_count, travellers,
          delivered, reply>>

(***************************************************************************)
(* Bounds of the enumerated inputs.                                        *)
(***************************************************************************)
MaxEdges == 3
MaxWeight == 3

(***************************************************************************)
(* graph-api/src/backend/models/graph.py                                   *)
(***************************************************************************)
\* Python's None
None == "None"

\* Vertex ids in str order (Python compares heap tuples (distance, id)
\* lexicographically, ids by code point).
IdOrder == <<"A", "B", "C", "D", "E", "F", "Z">>

IdRank(v) == CHOOSE i \in 1..Len(IdOrder) : IdOrder[i] = v

StrLess(a, b) == IdRank(a) < IdRank(b)

\* Edge(from, to, weight); weight: float = Field(..., gt=0)
Edge(f, t, w) == [from |-> f, to |-> t, weight |-> w]

EdgeNonNegative(e) == e.weight >= 0

EdgeValid(e) == e.weight > 0

\* Graph(vertices, edges)
Graph(vs, es) == [vertices |-> vs, edges |-> es]

\* float('inf') and finite floats
inf == [isInf |-> TRUE, val |-> 0]

Fin(n) == [isInf |-> FALSE, val |-> n]

FloatLess(a, b) == (~a.isInf) /\ (b.isInf \/ a.val < b.val)

\* ShortestPathResponse(path, total_distance, success, message)
ShortestPathResponse(p, d, s, m) ==
    [path |-> p, total_distance |-> d, success |-> s, message |-> m]

NoResponse == ShortestPathResponse(<<>>, inf, FALSE, "none")

(***************************************************************************)
(* Input graphs: the graphs of examples/shortest_path_example.py and every *)
(* graph on the vertices A, B, C with at most MaxEdges distinct edges of   *)
(* weight 1..MaxWeight, its edge list in ascending or descending order.    *)
(***************************************************************************)
ExampleSimpleGraph ==
    Graph(<<"A", "B", "C", "D", "E", "F">>,
          << Edge("A", "B", 1), Edge("B", "C", 2), Edge("A", "D", 4),
             Edge("B", "E", 3), Edge("C", "F", 1), Edge("D", "E", 1),
             Edge("E", "F", 2) >>)

ExampleDisconnectedGraph ==
    Graph(<<"A", "B", "C", "D">>, << Edge("A", "B", 1), Edge("C", "D", 1) >>)

\* example_complex_graph with router1, router2, router3, server1, server2, db
\* renamed to ids of the same str order: db < router1 < ... < server2
ExampleComplexGraph ==
    Graph(<<"B", "C", "D", "E", "F", "A">>,
          << Edge("B", "C", 5), Edge("B", "E", 10), Edge("C", "D", 3),
             Edge("C", "E", 2), Edge("D", "F", 4), Edge("E", "F", 1),
             Edge("F", "A", 2) >>)

\* two equal-cost routes, a stale heap entry, a cycle and a self-loop
TieGraph ==
    Graph(<<"A", "B", "C", "D">>,
          << Edge("A", "C", 1), Edge("A", "B", 1), Edge("C", "D", 1),
             Edge("B", "D", 1), Edge("D", "A", 1), Edge("B", "B", 1),
             Edge("A", "D", 3) >>)

SmallVertices == <<"A", "B", "C">>

Range(s) == {s[i] : i \in DOMAIN s}

EdgeKinds ==
    {e \in [from : Range(SmallVertices), to : Range(SmallVertices),
            weight : 1..MaxWeight] : e.from # e.to}

KindRank(e) == (IdRank(e.from) * Len(IdOrder) + IdRank(e.to)) * (MaxWeight + 1) + e.weight

RECURSIVE Ascending(_)
Ascending(S) ==
    IF S = {} THEN <<>>
    ELSE LET m == CHOOSE x \in S : \A y \in S : KindRank(x) <= KindRank(y)
         IN  <<m>> \o Ascending(S \ {m})

Reverse(s) == [i \in 1..Len(s) |-> s[Len(s) + 1 - i]]

SmallGraphs ==
    UNION {{Graph(SmallVertices, Ascending(S)), Graph(SmallVertices, Reverse(Ascending(S)))} :
           S \in {T \in SUBSET EdgeKinds : Cardinality(T) <= MaxEdges}}

InputGraphs ==
    {ExampleSimpleGraph, ExampleDisconnectedGraph, ExampleComplexGraph, TieGraph}
    \cup SmallGraphs

\* ids a request may name: the graph's own and one that is in no graph
AbsentId == "Z"

(***************************************************************************)
(* graph-api/src/backend/services/shortest_path.py                         *)
(***************************************************************************)
\* vertex_map = {v.id: v for v in graph.vertices} (its key set)
vertex_map(g) == Range(g.vertices)

\* the message of a response, by its kind
StartNotFound == "StartNotFound"
EndNotFound == "EndNotFound"
NoPathFound == "NoPathFound"
Found == "Found"

\* adjacency: Dict[str, List[Tuple[str, float]]], in edge-list order
RECURSIVE AdjacencyList(_, _, _)
AdjacencyList(es, v, i) ==
    IF i > Len(es) THEN <<>>
    ELSE (IF es[i].from = v THEN << <<es[i].to, es[i].weight>> >> ELSE <<>>)
         \o AdjacencyList(es, v, i + 1)

adjacency(g) == [v \in vertex_map(g) |-> AdjacencyList(g.edges, v, 1)]

\* the heap ordered by vertex id before distance
HeapLessIdFirst(x, y) == StrLess(x[2], y[2]) \/ (x[2] = y[2] /\ x[1] < y[1])

\* order of the heap's tuples (distance, vertex_id)
HeapLess(x, y) == x[1] < y[1] \/ (x[1] = y[1] /\ StrLess(x[2], y[2]))

\* a tie on distance alone, broken by nothing
HeapLessDistanceOnly(x, y) == x[1] < y[1]

\* heapq.heappop: the position of the entry it returns (equal tuples are
\* indistinguishable, the earliest stands for them)
HeapPopChoicesAnyTie(h) ==
    {i \in DOMAIN h : \A j \in DOMAIN h : ~HeapLessDistanceOnly(h[j], h[i])}

HeapPopChoices(h) ==
    {i \in DOMAIN h : /\ \A j \in DOMAIN h : ~HeapLess(h[j], h[i])
                      /\ \A j \in 1..(i - 1) : h[j] # h[i]}

RemoveAt(h, i) == [k \in 1..(Len(h) - 1) |-> IF k < i THEN h[k] ELSE h[k + 1]]

\* heapq.heappush
heappush(h, item) == Append(h, item)

\* the test of line 83 with <= in place of <
ShorterOrEqual(distance, old) == ~FloatLess(old, Fin(distance))

\* line 83: if distance < distances[neighbor]
Shorter(distance, old) == FloatLess(Fin(distance), old)

\* lines 79-86: the for loop over adjacency[current_vertex]
RECURSIVE RelaxNeighbors(_, _, _, _, _)
RelaxNeighbors(nbrs, i, current_distance, current_vertex, st) ==
    IF i > Len(nbrs) THEN st
    ELSE LET neighbor == nbrs[i][1]
             weight == nbrs[i][2]
             distance == current_distance + weight
         IN  IF Shorter(distance, st.distances[neighbor])
             THEN RelaxNeighbors(nbrs, i + 1, current_distance, current_vertex,
                     [distances |-> [st.distances EXCEPT ![neighbor] = Fin(distance)],
                      previous |-> [st.previous EXCEPT ![neighbor] = current_vertex],
                      pq |-> heappush(st.pq, <<distance, neighbor>>)])
             ELSE RelaxNeighbors(nbrs, i + 1, current_distance, current_vertex, st)

\* the path read from end_id backwards and not reversed
RECURSIVE BuildPathBackwards(_, _)
BuildPathBackwards(prev, current) ==
    IF current = None THEN <<>>
    ELSE <<current>> \o BuildPathBackwards(prev, prev[current])

\* lines 98-104: follow previous pointers from end_id, then reverse
RECURSIVE BuildPath(_, _)
BuildPath(prev, current) ==
    IF current = None THEN <<>>
    ELSE Append(BuildPath(prev, prev[current]), current)

\* lines 30-36 and 39-45: the response to a request naming an absent vertex
NotFoundAsEmptySuccess(kind) == ShortestPathResponse(<<>>, Fin(0), TRUE, kind)

NotFoundResponse(kind) == ShortestPathResponse(<<>>, inf, FALSE, kind)

\* the response without the test of line 89
ResponseUnchecked(dist, prev, s, e) ==
    ShortestPathResponse(BuildPath(prev, e), dist[e], TRUE, Found)

\* the response once the loop has ended (lines 88-115)
Response(dist, prev, s, e) ==
    IF dist[e] = inf
    THEN ShortestPathResponse(<<>>, inf, FALSE, NoPathFound)
    ELSE ShortestPathResponse(BuildPath(prev, e), dist[e], TRUE, Found)

\* the locals of a call that has not reached the search
NoLocals ==
    /\ distances' = <<>>
    /\ previous' = <<>>
    /\ pq' = <<>>
    /\ visited' = {}

\* lines 26-59: validation, adjacency and the initial frontier
Validate ==
    /\ pc = "start"
    /\ IF start_id \notin vertex_map(graph)
       THEN /\ result' = NotFoundResponse(StartNotFound)
            /\ pc' = "done"
            /\ runs' = runs + 1
            /\ NoLocals
       ELSE IF end_id \notin vertex_map(graph)
       THEN /\ result' = NotFoundResponse(EndNotFound)
            /\ pc' = "done"
            /\ runs' = runs + 1
            /\ NoLocals
       ELSE /\ distances' = [v \in vertex_map(graph) |->
                                IF v = start_id THEN Fin(0) ELSE inf]
            /\ previous' = [v \in vertex_map(graph) |-> None]
            /\ pq' = << <<0, start_id>> >>
            /\ visited' = {}
            /\ pc' = "loop"
            /\ UNCHANGED <<result, runs>>
    /\ UNCHANGED <<graph, start_id, end_id, first_result, first_graph>>
    /\ UNCHANGED <<trafficVars, readerVars, navigatorVars, registryVars>>

\* lines 61-86: one iteration of while pq
LoopIteration ==
    /\ pc = "loop"
    /\ pq # <<>>
    /\ \E i \in HeapPopChoices(pq) :
        LET current_distance == pq[i][1]
            current_vertex == pq[i][2]
            popped == RemoveAt(pq, i)
        IN  IF current_vertex \in visited
            THEN \* continue
                 /\ pq' = popped
                 /\ pc' = IF popped = <<>> THEN "reconstruct" ELSE "loop"
                 /\ UNCHANGED <<distances, previous, visited>>
            ELSE IF current_vertex = end_id
            THEN \* break
                 /\ pq' = popped
                 /\ visited' = visited \cup {current_vertex}
                 /\ pc' = "reconstruct"
                 /\ UNCHANGED <<distances, previous>>
            ELSE IF FloatLess(distances[current_vertex], Fin(current_distance))
            THEN \* outdated distance: continue
                 /\ pq' = popped
                 /\ visited' = visited \cup {current_vertex}
                 /\ pc' = IF popped = <<>> THEN "reconstruct" ELSE "loop"
                 /\ UNCHANGED <<distances, previous>>
            ELSE LET st == RelaxNeighbors(adjacency(graph)[current_vertex], 1,
                               current_distance, current_vertex,
                               [distances |-> distances, previous |-> previous,
                                pq |-> popped])
                 IN  /\ distances' = st.distances
                     /\ previous' = st.previous
                     /\ pq' = st.pq
                     /\ visited' = visited \cup {current_vertex}
                     /\ pc' = IF st.pq = <<>> THEN "reconstruct" ELSE "loop"
    /\ UNCHANGED <<graph, start_id, end_id, result, first_result, first_graph, runs>>
    /\ UNCHANGED <<trafficVars, readerVars, navigatorVars, registryVars>>

\* lines 88-115: the response
Reconstruct ==
    /\ pc = "reconstruct"
    /\ result' = Response(distances, previous, start_id, end_id)
    /\ pc' = "done"
    /\ runs' = runs + 1
    /\ UNCHANGED <<graph, start_id, end_id, distances, previous, pq, visited,
                   first_result, first_graph>>
    /\ UNCHANGED <<trafficVars, readerVars, navigatorVars, registryVars>>

\* the caller sends the same request again
CallAgain ==
    /\ pc = "done"
    /\ runs < 2
    /\ first_result' = result
    /\ pc' = "start"
    /\ NoLocals
    /\ UNCHANGED <<graph, start_id, end_id, result, first_graph, runs>>
    /\ UNCHANGED <<trafficVars, readerVars, navigatorVars, registryVars>>

\* no traffic generator has been constructed
NoTraffic ==
    /\ config = <<>>
    /\ vertices = <<>>
    /\ edges = <<>>
    /\ incidents = <<>>
    /\ update_count = 0
    /\ now = 0
    /\ incident_seq = 0
    /\ config_updates = 0
    /\ response = <<>>

\* no tick in progress and no snapshot handed out
NoReaders ==
    /\ tick_pc = "idle"
    /\ tick_i = 0
    /\ tick_draw = <<>>
    /\ held = <<>>
    /\ emit_state = <<>>
    /\ notified = <<>>
    /\ update_task = 0
    /\ tasks = <<>>
    /\ stopping = {}

\* no TravellerWorkflow
NoNavigator ==
    /\ workflow_id = ""
    /\ current_node = ""
    /\ end_node = ""
    /\ route = <<>>
    /\ route_index = 0
    /\ status = ""
    /\ interrupted = FALSE
    /\ wf_pc = "none"
    /\ plans = 0
    /\ unanswered = 0
    /\ queried = <<>>

NoReply == [op |-> "none", status |-> 0, interrupted_count |-> 0, travellers |-> <<>>,
            detail |-> ""]

\* no workflow execution and no request to the traveller routes
NoRegistry ==
    /\ executions = <<>>
    /\ handler = "none"
    /\ listed = <<>>
    /\ call_i = 0
    /\ interrupted_count = 0
    /\ travellers = <<>>
    /\ delivered = {}
    /\ reply = NoReply

SolverInit ==
    /\ NoTraffic
    /\ NoReaders
    /\ NoNavigator
    /\ NoRegistry
    /\ graph \in InputGraphs
    /\ start_id \in vertex_map(graph) \cup {AbsentId}
    /\ end_id \in vertex_map(graph) \cup {AbsentId}
    /\ distances = <<>>
    /\ previous = <<>>
    /\ pq = <<>>
    /\ visited = {}
    /\ pc = "start"
    /\ result = NoResponse
    /\ first_result = NoResponse
    /\ first_graph = graph
    /\ runs = 0

SolverNext == Validate \/ LoopIteration \/ Reconstruct \/ CallAgain

SpecSolver == SolverInit /\ [][SolverNext]_vars

\* routes/graph.py: the status of the HTTP response
find_shortest_path_route(res) == IF ~res.success THEN 404 ELSE 200

(***************************************************************************)
(* Reference definitions for the solver's properties, independent of the  *)
(* search: brute-force enumeration of the directed simple paths.           *)
(***************************************************************************)
FloatMin(S) ==
    IF S = {} THEN inf
    ELSE CHOOSE x \in S : \A y \in S : ~FloatLess(y, x)

FloatPlus(w, a) == IF a.isInf THEN inf ELSE Fin(w + a.val)

\* minimum total weight over the simple paths from cur to target avoiding seen
RECURSIVE MinSimplePath(_, _, _, _)
MinSimplePath(g, cur, target, seen) ==
    IF cur = target THEN Fin(0)
    ELSE FloatMin({FloatPlus(e.weight, MinSimplePath(g, e.to, target, seen \cup {e.to})) :
                   e \in {x \in Range(g.edges) : x.from = cur /\ x.to \notin seen}})

RECURSIVE ReachableFrom(_, _)
ReachableFrom(g, S) ==
    LET T == S \cup {e.to : e \in {x \in Range(g.edges) : x.from \in S}}
    IN  IF T = S THEN S ELSE ReachableFrom(g, T)

PositiveWeights(g) == \A e \in Range(g.edges) : EdgeValid(e)

BothPresent == start_id \in vertex_map(graph) /\ end_id \in vertex_map(graph)

\* least weight of an edge u -> v; inf if there is none
HopWeight(g, u, v) ==
    FloatMin({Fin(e.weight) : e \in {x \in Range(g.edges) : x.from = u /\ x.to = v}})

RECURSIVE PathWeight(_, _, _)
PathWeight(g, p, i) ==
    IF i >= Len(p) THEN Fin(0)
    ELSE LET rest == PathWeight(g, p, i + 1)
             hop == HopWeight(g, p[i], p[i + 1])
         IN  IF hop.isInf THEN inf ELSE FloatPlus(hop.val, rest)

(***************************************************************************)
(* C1: on a graph with strictly positive weights, for start and end in the *)
(* graph with end reachable from start, the finished call reports success  *)
(* and a total distance equal to the minimum weight over all directed      *)
(* simple paths from start to end.                                         *)
(***************************************************************************)
C1_MinimumDistance ==
    (pc = "done" /\ PositiveWeights(graph) /\ BothPresent
        /\ end_id \in ReachableFrom(graph, {start_id}))
    => /\ result.success
       /\ result.total_distance = MinSimplePath(graph, start_id, end_id, {start_id})

\* a finished search whose route beats a direct edge from start to end
C1_Witness ==
    /\ pc = "done"
    /\ result.success
    /\ Len(result.path) >= 3
    /\ \E e \in Range(graph.edges) :
          e.from = start_id /\ e.to = end_id /\ e.weight > result.total_distance.val

(***************************************************************************)
(* C2: when start and end are in the graph and no directed path leads from *)
(* start to end, the call ends with the NoPathFound failure (success =     *)
(* false, empty path); for A->B(1), C->D(1) the request (A, D) does.       *)
(***************************************************************************)
C2_NoPathFound ==
    (pc = "done" /\ BothPresent /\ end_id \notin ReachableFrom(graph, {start_id}))
    => /\ result = ShortestPathResponse(<<>>, inf, FALSE, NoPathFound)
       /\ find_shortest_path_route(result) = 404

\* the disconnected example, answered
C2_Witness ==
    /\ pc = "done"
    /\ graph = ExampleDisconnectedGraph
    /\ start_id = "A"
    /\ end_id = "D"
    /\ result.message = NoPathFound
    /\ visited = {"A", "B"}

(***************************************************************************)
(* C3: a request whose start or end id is not a vertex of the graph ends   *)
(* with a VertexNotFound failure (success = false, empty path; the start   *)
(* is reported first), the search has not run (no frontier, no visited     *)
(* vertex, no distance table), and the route answers 404, not a success.   *)
(***************************************************************************)
C3_VertexNotFound ==
    (pc = "done" /\ ~BothPresent)
    => /\ ~result.success
       /\ result.path = <<>>
       /\ result.message =
            (IF start_id \notin vertex_map(graph) THEN StartNotFound ELSE EndNotFound)
       /\ visited = {} /\ pq = <<>> /\ distances = <<>> /\ previous = <<>>
       /\ find_shortest_path_route(result) = 404

\* an answered request whose start is a vertex and whose end is not
C3_Witness ==
    /\ pc = "done"
    /\ start_id \in vertex_map(graph)
    /\ end_id = AbsentId
    /\ result.message = EndNotFound

(***************************************************************************)
(* C4: a successful response is a valid route: it starts at start, ends at *)
(* end, each consecutive pair is joined by an edge from -> to, no vertex   *)
(* repeats, and total_distance is the sum of the weights of its edges; the *)
(* example graph A-F answers (A, F) with [A, B, C, F] and distance 4.      *)
(***************************************************************************)
C4_ValidRoute ==
    (pc = "done" /\ result.success)
    => /\ Len(result.path) >= 1
       /\ result.path[1] = start_id
       /\ result.path[Len(result.path)] = end_id
       /\ \A i \in 1..(Len(result.path) - 1) :
             \E e \in Range(graph.edges) :
                 e.from = result.path[i] /\ e.to = result.path[i + 1]
       /\ \A i, j \in DOMAIN result.path : i # j => result.path[i] # result.path[j]
       /\ result.total_distance = PathWeight(graph, result.path, 1)
       /\ (graph = ExampleSimpleGraph /\ start_id = "A" /\ end_id = "F")
            => /\ result.path = <<"A", "B", "C", "F">>
               /\ result.total_distance = Fin(4)

\* the example request, answered
C4_Witness ==
    /\ pc = "done"
    /\ graph = ExampleSimpleGraph
    /\ start_id = "A"
    /\ end_id = "F"
    /\ result.success

Unit == 100

\* bounds of the traffic runs
MaxNodes == 3
MaxTicks == 2
MaxIncidents == 1
MaxClockSteps == 2
MaxConfigUpdates == 1
MaxTasks == 3

\* milliseconds the clock moves between two observations of it
ClockStep == 10 * 1000

Min(a, b) == IF a < b THEN a ELSE b

Max(a, b) == IF a > b THEN a ELSE b

\* max(0.0, min(1.0, x))
Clamp01(x) == Max(0, Min(Unit, x))

\* Python's round() of the rational num/den (den > 0): to nearest, ties to even
PyRound(num, den) ==
    LET q == num \div den
        r == num % den
    IN  IF 2 * r < den THEN q
        ELSE IF 2 * r > den THEN q + 1
        ELSE IF q % 2 = 0 THEN q ELSE q + 1

\* _calculate_speed: round(60 - (traffic_level * 55))
_calculate_speed(traffic_level) == PyRound(60 * Unit - traffic_level * 55, Unit)

\* _generate_random_traffic with random.random() = r
_generate_random_traffic(cfg, r) ==
    Clamp01(cfg.base_traffic_level + ((r - Unit \div 2) * cfg.traffic_variability * 4) \div Unit)

\* __init__: the default configuration (incident_probability in units of 1/100000)
ProbUnit == 100 * 1000

DefaultConfig ==
    [node_count |-> 20, update_interval |-> 30000, base_traffic_level |-> 15,
     traffic_variability |-> 35, incident_probability |-> 1, road_density |-> 30]

(***************************************************************************)
(* Draws of the random source during one graph generation.                 *)
(***************************************************************************)
\* vertex positions (x, y): random.random() * 800 + 50, random.random() * 500 + 50
Layouts ==
    { << <<100, 100>>, <<400, 100>>, <<400, 500>>, <<100, 500>>, <<700, 300>>, <<250, 300>> >> }

\* 2 + random.randint(0, 2), the same draw for every vertex
ConnectDraws == {2, 3}

\* random.random() of the density filter, by vertex i and rank k of the neighbour
DensityDraws == {"low", "high", "nearest"}

DensityDraw(d, i, k) ==
    IF d = "low" THEN 0
    ELSE IF d = "high" THEN Unit - 1
    ELSE IF k = 0 THEN 0 ELSE Unit - 1

\* random.random() of _generate_random_traffic, by index of the new edge
TrafficDraws == {"spread"}

TrafficDraw(d, k) ==
    IF d = "mid" THEN Unit \div 2
    ELSE IF k % 2 = 0 THEN Unit - 1 ELSE 0

\* random.randint(0, 49) of vehicleCount, by index of the new edge
VehicleDraw(k) == (7 * k) % 50

GenerationDraws ==
    [layout : Layouts, connect : ConnectDraws, density : DensityDraws, traffic : TrafficDraws]

(***************************************************************************)
(* _initialize_graph and _ensure_connectivity.  Vertex 'node_i' is the     *)
(* integer i, edge 'edge_k' the integer k.                                 *)
(***************************************************************************)
\* lines 36-42
MakeVertices(n, layout) ==
    [p \in 1..n |-> [id |-> p - 1, name |-> p, x |-> layout[p][1], y |-> layout[p][2]]]

\* dx * dx + dy * dy between vertices i and j (the square of the distance)
DistSq(vs, i, j) ==
    (vs[i + 1].x - vs[j + 1].x) * (vs[i + 1].x - vs[j + 1].x)
    + (vs[i + 1].y - vs[j + 1].y) * (vs[i + 1].y - vs[j + 1].y)

\* round(sqrt(dsq) / 10)
RoundedDistance(dsq) ==
    LET r == CHOOSE c \in 0..100 : 25 * (2 * c - 1) * (2 * c - 1) <= dsq
                                   /\ dsq < 25 * (2 * c + 1) * (2 * c + 1)
    IN  IF dsq = 25 * (2 * r - 1) * (2 * r - 1) /\ r % 2 = 1 THEN r - 1 ELSE r

\* lines 53-63: indices sorted by distance from vertex i (stable), i itself
\* last with distance inf
RECURSIVE SortByDistance(_, _, _)
SortByDistance(vs, i, left) ==
    IF left = {} THEN <<>>
    ELSE LET key(j) == IF j = i THEN <<1, 0, j>> ELSE <<0, DistSq(vs, i, j), j>>
             before(a, b) == \/ key(a)[1] < key(b)[1]
                             \/ key(a)[1] = key(b)[1] /\ key(a)[2] < key(b)[2]
                             \/ key(a)[1] = key(b)[1] /\ key(a)[2] = key(b)[2] /\ a <= b
             m == CHOOSE a \in left : \A b \in left : before(a, b)
         IN  <<m>> \o SortByDistance(vs, i, left \ {m})

\* lines 76-87 and 118-129: a new edge
NewEdge(k, f, t, traffic, dist, veh) ==
    [id |-> k, from |-> f, to |-> t, weight |-> traffic, distance |-> dist,
     speed |-> _calculate_speed(traffic), vehicleCount |-> veh,
     isIncident |-> FALSE, incidentSeverity |-> 0, bidirectional |-> TRUE]

\* lines 67-87: the loop over the k nearest of vertex i.  A neighbour rank
\* that reaches vertex i itself has distance inf, and round(inf / 10) raises
\* OverflowError: ok becomes FALSE and the generation stops there.
RECURSIVE ConnectNeighbours(_, _, _, _, _, _, _)
ConnectNeighbours(cfg, rnd, vs, i, sorted, k, st) ==
    IF ~st.ok \/ k >= Min(rnd.connect, Len(sorted)) THEN st
    ELSE LET j == sorted[k + 1]
             edge_id == {i, j}
         IN  IF edge_id \notin st.edge_set
                /\ DensityDraw(rnd.density, i, k) < cfg.road_density + Unit \div 2
             THEN IF j = i
                  THEN [st EXCEPT !.edge_set = @ \cup {edge_id}, !.ok = FALSE]
                  ELSE ConnectNeighbours(cfg, rnd, vs, i, sorted, k + 1,
                         [edges |-> Append(st.edges,
                             NewEdge(Len(st.edges), i, j,
                                 _generate_random_traffic(cfg, TrafficDraw(rnd.traffic, Len(st.edges))),
                                 RoundedDistance(DistSq(vs, i, j)),
                                 VehicleDraw(Len(st.edges)))),
                          edge_set |-> st.edge_set \cup {edge_id},
                          ok |-> TRUE])
             ELSE ConnectNeighbours(cfg, rnd, vs, i, sorted, k + 1, st)

\* lines 49-87: the loop over the vertices
RECURSIVE ConnectAll(_, _, _, _, _)
ConnectAll(cfg, rnd, vs, i, st) ==
    IF ~st.ok \/ i >= Len(vs) THEN st
    ELSE ConnectAll(cfg, rnd, vs, i + 1,
            ConnectNeighbours(cfg, rnd, vs, i, SortByDistance(vs, i, 0..(Len(vs) - 1)), 0, st))

ConnectedNodes(es) == {es[k].from : k \in DOMAIN es} \cup {es[k].to : k \in DOMAIN es}

\* lines 101-130: the loop over the vertices, connected the set so far
RECURSIVE ConnectIsolated(_, _, _, _, _, _)
ConnectIsolated(cfg, rnd, vs, i, es, connected) ==
    IF i >= Len(vs) THEN es
    ELSE IF i \in connected \/ connected = {}
    THEN ConnectIsolated(cfg, rnd, vs, i + 1, es, connected)
    ELSE LET nearest == CHOOSE o \in connected :
                            \A p \in connected :
                                \/ DistSq(vs, i, o) < DistSq(vs, i, p)
                                \/ DistSq(vs, i, o) = DistSq(vs, i, p) /\ o <= p
         IN  ConnectIsolated(cfg, rnd, vs, i + 1,
                 Append(es, NewEdge(Len(es), i, nearest,
                            _generate_random_traffic(cfg, TrafficDraw(rnd.traffic, Len(es))),
                            RoundedDistance(DistSq(vs, i, nearest)),
                            VehicleDraw(Len(es)))),
                 connected \cup {i})

_ensure_connectivity(cfg, rnd, vs, es) ==
    ConnectIsolated(cfg, rnd, vs, 0, es, ConnectedNodes(es))

\* _initialize_graph: the vertices and edges it leaves in self, and whether
\* it returned (ok) or raised.
_initialize_graph(cfg, rnd) ==
    LET vs == MakeVertices(cfg.node_count, rnd.layout)
        st == ConnectAll(cfg, rnd, vs, 0, [edges |-> <<>>, edge_set |-> {}, ok |-> TRUE])
    IN  IF st.ok
        THEN [vertices |-> vs, edges |-> _ensure_connectivity(cfg, rnd, vs, st.edges), ok |-> TRUE]
        ELSE [vertices |-> vs, edges |-> st.edges, ok |-> FALSE]

(***************************************************************************)
(* Incidents                                                               *)
(***************************************************************************)
\* lines 198-204 and 286-292: the edges sharing an endpoint with edge e
Connected(e, o) ==
    o.id # e.id /\ (o.from = e.from \/ o.from = e.to \/ o.to = e.from \/ o.to = e.to)

\* next((e for e in self.edges if e['id'] == edge_id), None): its position, 0 for None
FindEdge(es, edge_id) ==
    IF \E k \in DOMAIN es : es[k].id = edge_id
    THEN CHOOSE k \in DOMAIN es : es[k].id = edge_id /\ \A m \in 1..(k - 1) : es[m].id # edge_id
    ELSE 0

\* the incident effect with the weights left uncapped
IncidentEffectUncapped(es, edge_id, severity) ==
    LET k == FindEdge(es, edge_id)
    IN  IF k = 0 THEN es
        ELSE [m \in DOMAIN es |->
                IF m = k THEN [es[m] EXCEPT !.weight = es[m].weight + (severity * 8) \div 10]
                ELSE IF Connected(es[k], es[m])
                THEN [es[m] EXCEPT !.weight = es[m].weight + (severity * 5) \div 10]
                ELSE es[m]]

\* the incident effect with the connected edges left alone
IncidentEffectTargetOnly(es, edge_id, severity) ==
    LET k == FindEdge(es, edge_id)
    IN  IF k = 0 THEN es
        ELSE [es EXCEPT ![k].weight = Min(Unit, @ + (severity * 8) \div 10)]

\* _apply_incident_effect: min(1.0, weight + severity * 0.8) on the edge,
\* min(1.0, weight + severity * 0.5) on the connected edges
_apply_incident_effect(es, edge_id, severity) ==
    LET k == FindEdge(es, edge_id)
    IN  IF k = 0 THEN es
        ELSE [m \in DOMAIN es |->
                IF m = k
                THEN [es[m] EXCEPT !.weight = Min(Unit, es[m].weight + (severity * 8) \div 10)]
                ELSE IF Connected(es[k], es[m])
                THEN [es[m] EXCEPT !.weight = Min(Unit, es[m].weight + (severity * 5) \div 10)]
                ELSE es[m]]

\* _get_random_incident_type: the draws of random.choice(types) in the runs
TypeDraws == {"accident"}

\* _get_incident_description: the severity tier and the type it names
_get_incident_description(incident_type, severity) ==
    [tier |-> IF severity * 10 > 7 * Unit THEN "severe"
              ELSE IF severity * 10 > 4 * Unit THEN "moderate" ELSE "minor",
     type |-> incident_type]

\* the outcomes of create_incident
EdgeNotFound == "EdgeNotFound"
IncidentAlreadyActive == "IncidentAlreadyActive"
Created == "Created"

\* lines 220-226 with an edge that has an incident reported as not found
CreateIncidentOutcomeOneError(es, edge_id) ==
    IF FindEdge(es, edge_id) = 0 THEN EdgeNotFound
    ELSE IF es[FindEdge(es, edge_id)].isIncident THEN EdgeNotFound
    ELSE Created

\* lines 220-226: which way create_incident goes
CreateIncidentOutcome(es, edge_id) ==
    IF FindEdge(es, edge_id) = 0 THEN EdgeNotFound
    ELSE IF es[FindEdge(es, edge_id)].isIncident THEN IncidentAlreadyActive
    ELSE Created

\* lines 228-245: the incident built at time t with the uuid seq
NewIncident(es, edge_id, severity, duration, incident_type, t1, t2, t, seq) ==
    LET edge == es[FindEdge(es, edge_id)]
        validated_severity == Clamp01(severity)
        validated_duration == Max(10000, Min(3600000, duration))
    IN  [id |-> seq, edgeId |-> edge_id, from |-> edge.from, to |-> edge.to,
         severity |-> validated_severity, startTime |-> t,
         endTime |-> t + validated_duration,
         type |-> IF incident_type # None THEN incident_type ELSE t1,
         description |-> _get_incident_description(
                            IF incident_type # None THEN incident_type ELSE t2,
                            validated_severity)]

\* create_incident on a known edge without an incident: the edges and
\* incidents it leaves (lines 228-255)
create_incident(es, incs, edge_id, severity, duration, incident_type, t1, t2, t, seq) ==
    LET incident == NewIncident(es, edge_id, severity, duration, incident_type, t1, t2, t, seq)
        k == FindEdge(es, edge_id)
        flagged == [es EXCEPT ![k].isIncident = TRUE,
                              ![k].incidentSeverity = incident.severity]
    IN  [incident |-> incident,
         incidents |-> Append(incs, incident),
         edges |-> _apply_incident_effect(flagged, edge_id, incident.severity)]

\* line 303: now >= incident['endTime']
Expired(incident, t) == t >= incident.endTime

\* the edge of a removed incident with its severity left standing
ClearEdgeFlagOnly(es, edge_id) ==
    LET k == FindEdge(es, edge_id)
    IN  IF k = 0 THEN es ELSE [es EXCEPT ![k].isIncident = FALSE]

\* the edge of a removed incident with the raise of its weight taken back
ClearEdgeAndWeight(es, edge_id) ==
    LET k == FindEdge(es, edge_id)
    IN  IF k = 0 THEN es
        ELSE [es EXCEPT ![k].isIncident = FALSE, ![k].incidentSeverity = 0,
                        ![k].weight = Max(0, @ - (es[k].incidentSeverity * 8) \div 10)]

\* lines 304-307 and 320-323: the edge of a removed incident
ClearEdgeFlags(es, edge_id) ==
    LET k == FindEdge(es, edge_id)
    IN  IF k = 0 THEN es
        ELSE [es EXCEPT ![k].isIncident = FALSE, ![k].incidentSeverity = 0]

RECURSIVE ClearExpiredFlags(_, _, _, _)
ClearExpiredFlags(es, incs, i, t) ==
    IF i > Len(incs) THEN es
    ELSE ClearExpiredFlags(
            IF Expired(incs[i], t) THEN ClearEdgeFlags(es, incs[i].edgeId) ELSE es,
            incs, i + 1, t)

\* _update_incidents at time t
_update_incidents(es, incs, t) ==
    [edges |-> ClearExpiredFlags(es, incs, 1, t),
     incidents |-> SelectSeq(incs, LAMBDA i : ~Expired(i, t))]

(***************************************************************************)
(* The tick: _update_traffic                                               *)
(***************************************************************************)
\* lines 148-156: the time multiplier, in tenths
TimeMultiplier(hour) ==
    IF 7 <= hour /\ hour <= 9 THEN 15
    ELSE IF 17 <= hour /\ hour <= 19 THEN 16
    ELSE IF hour >= 23 \/ hour <= 5 THEN 4
    ELSE 10

\* _get_average_neighbor_traffic times 0.05, in units of 1/(100 * Unit)
NeighbourTerm(cfg, es, edge) ==
    LET connected_edges == {m \in DOMAIN es : Connected(edge, es[m])}
        RECURSIVE Sum(_)
        Sum(S) == IF S = {} THEN 0
                  ELSE LET m == CHOOSE x \in S : TRUE IN es[m].weight + Sum(S \ {m})
    IN  IF connected_edges = {} THEN 5 * cfg.base_traffic_level
        ELSE (5 * Sum(connected_edges)) \div Cardinality(connected_edges)

\* lines 162-170: the new traffic level before the clamp, in units of 1/Unit
BlendedTraffic(cfg, es, edge, d) ==
    LET random_change == (d.change - Unit \div 2) * 20
        adjustment == IF d.adjust THEN (d.adjustment - Unit \div 2) * 15 ELSE 0
    IN  ((edge.weight * 85 + NeighbourTerm(cfg, es, edge) + random_change + adjustment)
            * TimeMultiplier(d.hour)) \div 1000

\* the new traffic level without the clamp of line 173
NewTrafficUnclamped(cfg, es, edge, d) == BlendedTraffic(cfg, es, edge, d)

\* lines 160-173: the new traffic level of an edge
NewTraffic(cfg, es, edge, d) == Clamp01(BlendedTraffic(cfg, es, edge, d))

\* the draws of one tick: the hour of datetime.now(), random.random() of
\* the change (change), of the 5% test (adjust) and of its size
\* (adjustment), random.randint(-5, 5) (jitter), the edge whose incident
\* draw is 0 while the others draw just under 1 (hit, -1 for none), and the
\* severity and duration draws of that incident.
TickDraws ==
    { [hour |-> 8, change |-> Unit - 1, adjust |-> TRUE, adjustment |-> Unit - 1, jitter |-> 5],
      [hour |-> 3, change |-> 0, adjust |-> FALSE, adjustment |-> 0, jitter |-> -5] }

\* random.random() * 0.5 + 0.3 and 30000 + random.random() * 60000
SpontaneousSeverities == {70}

SpontaneousDurations == {30000}

IncidentDraw(hit, edge_id) == IF edge_id = hit THEN 0 ELSE ProbUnit - 1

\* lines 173-176: the edge with its new traffic level, speed and vehicle count
UpdatedEdge(edge, new_traffic, jitter) ==
    [edge EXCEPT !.weight = new_traffic,
                 !.speed = _calculate_speed(new_traffic),
                 !.vehicleCount = Max(0, (new_traffic * 100) \div Unit + jitter)]

\* lines 160-188: one pass of the loop body, for the edge at position i
UpdateEdge(cfg, st, i, d, hit, sev, t) ==
    LET edge == st.edges[i]
        updated == [st.edges EXCEPT ![i] =
                       UpdatedEdge(edge, NewTraffic(cfg, st.edges, edge, d), d.jitter)]
    IN  IF ~edge.isIncident /\ IncidentDraw(hit, edge.id) < cfg.incident_probability
        THEN LET c == create_incident(updated, st.incidents, edge.id, sev.severity,
                                      sev.duration, None, sev.t1, sev.t2, t, st.seq)
             IN  [edges |-> c.edges, incidents |-> c.incidents, seq |-> st.seq + 1]
        ELSE [st EXCEPT !.edges = updated]

\* lines 159-188: the loop over the edges, from position i on
RECURSIVE UpdateEdges(_, _, _, _, _, _, _)
UpdateEdges(cfg, st, i, d, hit, sev, t) ==
    IF i > Len(st.edges) THEN st
    ELSE UpdateEdges(cfg, UpdateEdge(cfg, st, i, d, hit, sev, t), i + 1, d, hit, sev, t)

\* get_current_state at time t
get_current_state(cfg, vs, es, incs, count, t) ==
    [vertices |-> vs, edges |-> es, incidents |-> incs, config |-> cfg,
     updateCount |-> count, timestamp |-> t]

\* get_active_incidents at time t
get_active_incidents(incs, t) ==
    [i \in DOMAIN incs |->
        [incident |-> incs[i], remainingTime |-> Max(0, incs[i].endTime - t)]]

(***************************************************************************)
(* The calls on the traffic generator.  response holds what the last call  *)
(* through routes/traffic.py handed to its caller (create_incident,        *)
(* clear_incident, update_config): the call, its argument (edge id or      *)
(* incident id), the HTTP status and the error.  The two reads,            *)
(* get_current_state and get_active_incidents, write nothing: what a read  *)
(* returns in a state is the operator applied to that state.               *)
(***************************************************************************)
Resp(op, arg, status_code, error) ==
    [op |-> op, arg |-> arg, status |-> status_code, error |-> error]

NoCall == Resp("none", -1, 0, "")

solverIdle ==
    /\ graph = Graph(<<>>, <<>>)
    /\ start_id = None
    /\ end_id = None
    /\ distances = <<>>
    /\ previous = <<>>
    /\ pq = <<>>
    /\ visited = {}
    /\ pc = "idle"
    /\ result = NoResponse
    /\ first_result = NoResponse
    /\ first_graph = Graph(<<>>, <<>>)
    /\ runs = 0

\* TrafficGenerator(config) with node_count given: __init__
TrafficInit ==
    /\ solverIdle
    /\ NoReaders
    /\ NoNavigator
    /\ NoRegistry
    /\ config \in {[DefaultConfig EXCEPT !.node_count = n] : n \in 1..MaxNodes}
    /\ \E g \in {_initialize_graph(config, rnd) : rnd \in GenerationDraws} :
          /\ g.ok
          /\ vertices = g.vertices
          /\ edges = g.edges
    /\ incidents = <<>>
    /\ update_count = 0
    /\ now = 0
    /\ incident_seq = 0
    /\ config_updates = 0
    /\ response = NoCall

EdgeIds == {edges[k].id : k \in DOMAIN edges}

\* _update_traffic, lines 145-191: the edge loop and the expiry pass; the
\* state then emitted is get_current_state of the state the tick leaves
UpdateTraffic ==
    /\ update_count < MaxTicks
    /\ \E d \in TickDraws :
       \E hit \in {-1} \cup (IF incident_seq < MaxIncidents THEN {Len(edges) - 1} ELSE {}) :
       \E sev \in [severity : SpontaneousSeverities, duration : SpontaneousDurations,
                   t1 : TypeDraws, t2 : TypeDraws] :
       \E st \in {UpdateEdges(config, [edges |-> edges, incidents |-> incidents,
                                       seq |-> incident_seq], 1, d, hit, sev, now)} :
       \E ui \in {_update_incidents(st.edges, st.incidents, now)} :
          /\ edges' = ui.edges
          /\ incidents' = ui.incidents
          /\ incident_seq' = st.seq
          /\ update_count' = update_count + 1
    /\ UNCHANGED <<config, vertices, now, config_updates, response>>
    /\ UNCHANGED <<solverVars, readerVars, navigatorVars, registryVars>>

\* IncidentCreateRequest: severities and durations the route lets through
\* (0 <= severity <= 1, 10000 <= duration <= 3600000) in the runs
Severities == {50, 100}

Durations == {10000}

IncidentTypes == {"roadblock"}

\* POST /incident -> create_incident: ValueError becomes status 400
CreateIncident ==
    /\ \E edge_id \in 0..Len(edges), severity \in Severities, duration \in Durations,
          incident_type \in IncidentTypes, t1 \in TypeDraws, t2 \in TypeDraws :
          LET outcome == CreateIncidentOutcome(edges, edge_id)
          IN  IF outcome # Created
              THEN /\ response' = Resp("create_incident", edge_id, 400, outcome)
                   /\ UNCHANGED <<edges, incidents, incident_seq>>
              ELSE /\ incident_seq < MaxIncidents
                   /\ LET c == create_incident(edges, incidents, edge_id, severity, duration,
                                               incident_type, t1, t2, now, incident_seq)
                      IN  /\ edges' = c.edges
                          /\ incidents' = c.incidents
                          /\ incident_seq' = incident_seq + 1
                          /\ response' = Resp("create_incident", edge_id, 200, "")
    /\ UNCHANGED <<config, vertices, update_count, now, config_updates>>
    /\ UNCHANGED <<solverVars, readerVars, navigatorVars, registryVars>>

IncidentNotFound == "IncidentNotFound"

\* an unknown id taken for the first incident there is
FindIncidentOrFirst(incs, incident_id) ==
    IF \E k \in DOMAIN incs : incs[k].id = incident_id
    THEN CHOOSE k \in DOMAIN incs :
            incs[k].id = incident_id /\ \A m \in 1..(k - 1) : incs[m].id # incident_id
    ELSE IF incs = <<>> THEN 0 ELSE 1

\* line 315: next((i for i in self.incidents if i['id'] == incident_id), None),
\* its position, 0 for None
FindIncident(incs, incident_id) ==
    IF \E k \in DOMAIN incs : incs[k].id = incident_id
    THEN CHOOSE k \in DOMAIN incs :
            incs[k].id = incident_id /\ \A m \in 1..(k - 1) : incs[m].id # incident_id
    ELSE 0

\* DELETE /incident/{id} -> clear_incident: ValueError becomes status 404
ClearIncident ==
    /\ \E incident_id \in 0..incident_seq :
          LET k == FindIncident(incidents, incident_id)
          IN  IF k = 0
              THEN /\ response' = Resp("clear_incident", incident_id, 404, IncidentNotFound)
                   /\ UNCHANGED <<edges, incidents>>
              ELSE /\ edges' = ClearEdgeFlags(edges, incidents[k].edgeId)
                   /\ incidents' = RemoveAt(incidents, k)
                   /\ response' = Resp("clear_incident", incident_id, 200, "")
    /\ UNCHANGED <<config, vertices, update_count, now, incident_seq, config_updates>>
    /\ UNCHANGED <<solverVars, readerVars, navigatorVars, registryVars>>

\* the clock moves on
AdvanceTime ==
    /\ now < MaxClockSteps * ClockStep
    /\ now' = now + ClockStep
    /\ UNCHANGED <<config, vertices, edges, incidents, update_count, incident_seq,
                   config_updates, response>>
    /\ UNCHANGED <<solverVars, readerVars, navigatorVars, registryVars>>

\* 'field' in new_config
Has(new_config, field) == field \in DOMAIN new_config

\* the partial configurations handed to update_config in the runs
ConfigUpdates ==
    { [node_count |-> 3],
      [road_density |-> 60, base_traffic_level |-> 90],
      [incident_probability |-> 0, traffic_variability |-> 100, update_interval |-> 1000] }

\* lines 407-413: node_count and road_density, and whether to regenerate
StructuralConfig(cfg, new_config) ==
    LET node_changed == Has(new_config, "node_count")
                        /\ new_config.node_count # cfg.node_count
        cfg1 == IF node_changed
                THEN [cfg EXCEPT !.node_count = new_config.node_count] ELSE cfg
        cfg2 == IF Has(new_config, "road_density")
                THEN [cfg1 EXCEPT !.road_density = new_config.road_density] ELSE cfg1
    IN  [config |-> cfg2, needs_reinit |-> node_changed \/ Has(new_config, "road_density")]

TuningConfigZeroing(cfg, new_config) ==
    [cfg EXCEPT
        !.update_interval = IF Has(new_config, "update_interval")
                            THEN new_config.update_interval ELSE 0,
        !.base_traffic_level = IF Has(new_config, "base_traffic_level")
                               THEN new_config.base_traffic_level ELSE 0,
        !.traffic_variability = IF Has(new_config, "traffic_variability")
                                THEN new_config.traffic_variability ELSE 0,
        !.incident_probability = IF Has(new_config, "incident_probability")
                                 THEN new_config.incident_probability ELSE 0]

\* lines 418-428: the four fields that need no regeneration
TuningConfig(cfg, new_config) ==
    [cfg EXCEPT
        !.update_interval = IF Has(new_config, "update_interval")
                            THEN new_config.update_interval ELSE @,
        !.base_traffic_level = IF Has(new_config, "base_traffic_level")
                               THEN new_config.base_traffic_level ELSE @,
        !.traffic_variability = IF Has(new_config, "traffic_variability")
                                THEN new_config.traffic_variability ELSE @,
        !.incident_probability = IF Has(new_config, "incident_probability")
                                 THEN new_config.incident_probability ELSE @]

\* POST /config -> update_config: an exception of the regeneration leaves
\* what was written before it and becomes status 400
UpdateConfigWith(requests) ==
    /\ config_updates < MaxConfigUpdates
    /\ config_updates' = config_updates + 1
    /\ \E new_config \in requests :
          LET s == StructuralConfig(config, new_config)
          IN  IF s.needs_reinit
              THEN \E g \in {_initialize_graph(s.config, rnd) : rnd \in GenerationDraws} :
                      /\ vertices' = g.vertices
                      /\ edges' = g.edges
                      /\ IF g.ok
                         THEN /\ config' = TuningConfig(s.config, new_config)
                              /\ response' = Resp("update_config", new_config, 200, "")
                         ELSE /\ config' = s.config
                              /\ response' = Resp("update_config", new_config, 400,
                                                  "OverflowError")
              ELSE /\ config' = TuningConfig(s.config, new_config)
                   /\ response' = Resp("update_config", new_config, 200, "")
                   /\ UNCHANGED <<vertices, edges>>
    /\ UNCHANGED <<incidents, update_count, now, incident_seq>>
    /\ UNCHANGED <<solverVars, readerVars, navigatorVars, registryVars>>

UpdateConfig == UpdateConfigWith(ConfigUpdates)

\* what GET /current returns in this state
Snapshot == get_current_state(config, vertices, edges, incidents, update_count, now)

TrafficNext ==
    \/ UpdateTraffic
    \/ CreateIncident
    \/ ClearIncident
    \/ UpdateConfig
    \/ AdvanceTime

SpecTraffic == TrafficInit /\ [][TrafficNext]_vars

(***************************************************************************)
(* Properties of the traffic generator                                     *)
(***************************************************************************)
\* C6: in every reachable state of the traffic generator (after the graph
\* generation, ticks, incident creations, clears and expiries, and config
\* updates) the weight of every edge lies in [0, 1].
C6_WeightInUnitInterval ==
    \A k \in DOMAIN edges : 0 <= edges[k].weight /\ edges[k].weight <= Unit

\* a tick and a config update have happened, an incident is active on an
\* edge whose weight is at the upper end of the interval, and another edge
\* is below it
C6_Witness ==
    /\ update_count > 0
    /\ config_updates > 0
    /\ \E k \in DOMAIN edges : edges[k].isIncident /\ edges[k].weight = Unit
    /\ \E k \in DOMAIN edges : edges[k].weight < Unit

\* C7: in every reachable state every edge's speed is round(60 - 55 * weight)
\* of its weight, also right after an incident was created on the edge or on
\* an edge connected to it.
C7_SpeedFollowsWeight ==
    \A k \in DOMAIN edges : edges[k].speed = _calculate_speed(edges[k].weight)

\* C8: create_incident on an edge id that is not in the graph is answered
\* with EdgeNotFound, on an edge whose incident flag is set with
\* IncidentAlreadyActive; both come back as status 400 and leave the edges
\* and the incidents as they were.
C8_CreateIncidentRejected ==
    [][CreateIncident =>
         LET edge_id == response'.arg
             k == FindEdge(edges, edge_id)
         IN  /\ response'.op = "create_incident"
             /\ edge_id \notin EdgeIds =>
                    /\ response'.status = 400
                    /\ response'.error = EdgeNotFound
                    /\ UNCHANGED <<edges, incidents>>
             /\ (edge_id \in EdgeIds /\ edges[k].isIncident) =>
                    /\ response'.status = 400
                    /\ response'.error = IncidentAlreadyActive
                    /\ UNCHANGED <<edges, incidents>>]_vars

\* create_incident was just refused on an edge that has an incident
C8_Witness ==
    /\ response.op = "create_incident"
    /\ response.status = 400
    /\ response.error = IncidentAlreadyActive
    /\ \E i \in DOMAIN incidents : incidents[i].edgeId = response.arg
    /\ edges[FindEdge(edges, response.arg)].isIncident

\* the successful create_incident steps: the position of the edge and the
\* clamped severity of the incident they appended
CreatedEdge == FindEdge(edges, response'.arg)

CreatedSeverity == incidents'[Len(incidents')].severity

\* C9 as stated: a successful create_incident with severity s raises the
\* weight of its edge by at least min(1, 0.8 * s).
C9_RaisedByAtLeastMin ==
    [][(CreateIncident /\ response'.status = 200) =>
         10 * (edges'[CreatedEdge].weight - edges[CreatedEdge].weight)
            >= Min(10 * Unit, 8 * CreatedSeverity)]_vars

\* C9 amended: a successful create_incident with severity s takes the weight
\* w of its edge to min(1, w + 0.8 * s): it raises it by min(1 - w, 0.8 * s).
C9_RaisedToCap ==
    [][(CreateIncident /\ response'.status = 200) =>
         10 * edges'[CreatedEdge].weight
            = Min(10 * Unit, 10 * edges[CreatedEdge].weight + 8 * CreatedSeverity)]_vars

\* an incident was just created on an edge whose weight was above 0 and the
\* cap cut the raise short of 0.8 * s
C9_Witness ==
    /\ response.op = "create_incident"
    /\ response.status = 200
    /\ update_count = 0
    /\ config_updates = 0
    /\ \E i \in DOMAIN incidents :
          /\ incidents[i].edgeId = response.arg
          /\ incidents[i].severity = Unit
          /\ edges[FindEdge(edges, response.arg)].weight = Unit

\* C10: an incident whose endTime has passed is in no snapshot taken after
\* that time (get_current_state, get_active_incidents), and the edges the
\* snapshot flags have an incident that has not ended, whether or not a tick
\* ran in between.
C10_ExpiredAbsentFromSnapshot ==
    /\ \A i \in DOMAIN Snapshot.incidents :
          ~(Snapshot.timestamp > Snapshot.incidents[i].endTime)
    /\ \A i \in DOMAIN get_active_incidents(incidents, now) :
          ~(now > get_active_incidents(incidents, now)[i].incident.endTime)
    /\ \A k \in DOMAIN Snapshot.edges :
          Snapshot.edges[k].isIncident =>
             \E i \in DOMAIN Snapshot.incidents :
                /\ Snapshot.incidents[i].edgeId = Snapshot.edges[k].id
                /\ ~(Snapshot.timestamp > Snapshot.incidents[i].endTime)

\* the ids of the incidents in self.incidents
LiveIncidentIds == {incidents[i].id : i \in DOMAIN incidents}

\* C11: clear_incident with an id that no incident in self.incidents has is
\* answered with IncidentNotFound (status 404) and leaves the incidents and
\* the edges as they were; a successful clear_incident takes the id out of
\* self.incidents, so the same id is refused the second time.
C11_ClearUnknownRejected ==
    [][ClearIncident =>
         /\ response'.op = "clear_incident"
         /\ response'.arg \notin LiveIncidentIds =>
                /\ response'.status = 404
                /\ response'.error = IncidentNotFound
                /\ UNCHANGED <<edges, incidents>>
         /\ response'.status = 200 =>
                /\ response'.arg \in LiveIncidentIds
                /\ \A i \in DOMAIN incidents' : incidents'[i].id # response'.arg]_vars

\* clear_incident was just refused for the id of an incident that was
\* created and, no tick having run, can only have been cleared before
C11_Witness ==
    /\ response.op = "clear_incident"
    /\ response.status = 404
    /\ response.error = IncidentNotFound
    /\ response.arg < incident_seq
    /\ update_count = 0
    /\ incidents = <<>>

(***************************************************************************)
(* A reader that keeps the dict get_current_state returned.  'edges' is a  *)
(* new list of new dicts (lines 332-346).  'incidents' and 'config' are    *)
(* self.incidents and self.config themselves (lines 347-348), objects the  *)
(* generator never rebinds and changes in place (append and remove, item   *)
(* assignment).  'vertices' is self.vertices (line 331), a list that       *)
(* _initialize_graph replaces by a new one (line 35) and never changes     *)
(* after it is built.                                                      *)
(***************************************************************************)
\* the keys of the dict whose values are objects the generator changes in place
SharedKeys == {"incidents", "config"}

\* the object behind a shared key, as it is now
Live(key) == IF key = "incidents" THEN incidents ELSE config

\* what the dict handed out shows when the reader looks at it now
HeldView == [key \in DOMAIN held |-> IF key \in SharedKeys THEN Live(key) ELSE held[key]]

\* GET /current -> get_current_state: the reader keeps what it returned
GetCurrentState ==
    /\ held = <<>>
    /\ held' = Snapshot
    /\ UNCHANGED <<tick_pc, tick_i, tick_draw, emit_state, notified>>
    /\ UNCHANGED taskVars
    /\ UNCHANGED <<trafficVars, solverVars, navigatorVars, registryVars>>

SnapshotNext ==
    \/ TrafficNext
    \/ GetCurrentState

\* TrafficGenerator({'node_count': 2}): a generator of two vertices
SnapshotInit == TrafficInit /\ config.node_count = 2

SpecSnapshot == SnapshotInit /\ [][SnapshotNext]_vars

\* C12: the edges, incidents, vertices and config in a dict that
\* get_current_state handed out stay what they were when it was handed out,
\* whatever tick, create_incident, clear_incident, expiry or update_config
\* comes later.
C12_SnapshotUnchanged == held # <<>> => HeldView = held

\* ---------------------------------------------------------------------------
\* The tick, statement by statement, interleaved with readers
\* (traffic_generator.py lines 143-194, 453-478).  The update task and the
\* readers are coroutines of one event loop: another task runs only while the
\* update task is suspended at an await.
\* ---------------------------------------------------------------------------

\* the registered observers (on_update, lines 449-451): a coroutine function
\* and a plain function
Callbacks == <<"coroutine", "function">>

\* how a call of an observer ends: it returns, or it raises an Exception
ObserverOutcomes == {"returns", "raises"}

OnCallbackErrorRaise == "raise"

\* lines 462-463: except Exception prints and the for loop goes on
OnCallbackError == "continue"

\* lines 456-461: where the update task is while observer i runs: awaiting
\* a coroutine (line 459), inside the call of a function (line 461), asleep
\* (line 476) after the last one
ObserverPc(i) ==
    IF i > Len(Callbacks) THEN "idle"
    ELSE IF Callbacks[i] = "coroutine" THEN "callback" ELSE "call"

\* lines 456-463: observer i has ended with outcome o
ObserverEnds(i, o) ==
    /\ notified' = Append(notified, [observer |-> i, state |-> emit_state, outcome |-> o])
    /\ tick_pc' = IF o = "raises" /\ OnCallbackError = "raise"
                  THEN "dead" ELSE ObserverPc(i + 1)

AwaitPointsWithLoop == {"idle", "callback", "loop"}

\* where the update task awaits: asyncio.sleep in update_loop (line 476) and
\* the observer coroutine in _emit_update (line 459); the edge loop and the
\* expiry (lines 159-191) hold no await
AwaitPoints == {"idle", "callback"}

\* line 145, and the random draws the loop is going to make
TickStart ==
    /\ tick_pc = "idle"
    /\ update_count < MaxTicks
    /\ update_count' = update_count + 1
    /\ \E d \in TickDraws :
       \E hit \in {-1} \cup (IF incident_seq < MaxIncidents THEN {Len(edges) - 1} ELSE {}) :
       \E sev \in [severity : SpontaneousSeverities, duration : SpontaneousDurations,
                   t1 : TypeDraws, t2 : TypeDraws] :
          tick_draw' = [d |-> d, hit |-> hit, sev |-> sev]
    /\ tick_i' = 1
    /\ tick_pc' = "loop"
    /\ emit_state' = <<>>
    /\ notified' = <<>>
    /\ UNCHANGED taskVars
    /\ UNCHANGED <<config, vertices, edges, incidents, now, incident_seq, config_updates,
                   response, held>>
    /\ UNCHANGED <<solverVars, navigatorVars, registryVars>>

\* lines 159-188: one pass of the loop
TickEdge ==
    /\ tick_pc = "loop"
    /\ tick_i <= Len(edges)
    /\ \E st \in {UpdateEdge(config, [edges |-> edges, incidents |-> incidents,
                                      seq |-> incident_seq], tick_i, tick_draw.d,
                             tick_draw.hit, tick_draw.sev, now)} :
          /\ edges' = st.edges
          /\ incidents' = st.incidents
          /\ incident_seq' = st.seq
    /\ tick_i' = tick_i + 1
    /\ UNCHANGED <<config, vertices, update_count, now, config_updates, response,
                   tick_pc, tick_draw, held, emit_state, notified>>
    /\ UNCHANGED taskVars
    /\ UNCHANGED <<solverVars, navigatorVars, registryVars>>

\* line 191: the loop is over, expired incidents are removed
TickExpire ==
    /\ tick_pc = "loop"
    /\ tick_i > Len(edges)
    /\ \E ui \in {_update_incidents(edges, incidents, now)} :
          /\ edges' = ui.edges
          /\ incidents' = ui.incidents
    /\ tick_pc' = "emit"
    /\ UNCHANGED <<config, vertices, update_count, now, incident_seq, config_updates,
                   response, tick_i, tick_draw, held, emit_state, notified>>
    /\ UNCHANGED taskVars
    /\ UNCHANGED <<solverVars, navigatorVars, registryVars>>

\* lines 194, 453-461: the snapshot is taken and handed to the first
\* observer
TickEmit ==
    /\ tick_pc = "emit"
    /\ held' = Snapshot
    /\ emit_state' = Snapshot
    /\ tick_pc' = ObserverPc(1)
    /\ tick_i' = IF Callbacks = <<>> THEN 0 ELSE 1
    /\ UNCHANGED <<tick_draw, notified>>
    /\ UNCHANGED taskVars
    /\ UNCHANGED <<trafficVars, solverVars, navigatorVars, registryVars>>

\* lines 456-463: an observer ends and the next one is called
TickNotifyNext ==
    /\ tick_pc \in {"callback", "call"}
    /\ tick_i < Len(Callbacks)
    /\ \E o \in ObserverOutcomes : ObserverEnds(tick_i, o)
    /\ tick_i' = tick_i + 1
    /\ UNCHANGED <<tick_draw, held, emit_state>>
    /\ UNCHANGED taskVars
    /\ UNCHANGED <<trafficVars, solverVars, navigatorVars, registryVars>>

\* lines 456-463, 476: the last observer ends and the update task sleeps
TickSleep ==
    /\ tick_pc \in {"callback", "call"}
    /\ tick_i = Len(Callbacks)
    /\ \E o \in ObserverOutcomes : ObserverEnds(tick_i, o)
    /\ tick_i' = 0
    /\ tick_draw' = <<>>
    /\ UNCHANGED <<held, emit_state>>
    /\ UNCHANGED taskVars
    /\ UNCHANGED <<trafficVars, solverVars, navigatorVars, registryVars>>

\* a reader task calls get_current_state (routes/traffic.py line 31) while
\* the update task is suspended
ReadCurrentState ==
    /\ tick_pc \in AwaitPoints
    /\ held' = Snapshot
    /\ UNCHANGED <<tick_pc, tick_i, tick_draw, emit_state, notified>>
    /\ UNCHANGED taskVars
    /\ UNCHANGED <<trafficVars, solverVars, navigatorVars, registryVars>>

TickNext ==
    \/ TickStart
    \/ TickEdge
    \/ TickExpire
    \/ TickEmit
    \/ TickNotifyNext
    \/ TickSleep
    \/ ReadCurrentState
    \/ AdvanceTime

SpecTick == TrafficInit /\ [][TickNext]_vars

\* C13: no reader and no observer sees a half-applied tick: once the loop
\* and the expiry of tick n are over, a snapshot that carries the count n
\* shows exactly the edges and incidents that tick left behind, so no
\* snapshot was taken between two passes of the loop.
C13_NoHalfAppliedTick ==
    (held # <<>> /\ held.updateCount = update_count /\ tick_pc \in {"emit", "callback", "idle"})
        => /\ held.edges = edges
           /\ held.incidents = incidents

C13_Witness ==
    /\ tick_pc = "callback"
    /\ held # <<>>
    /\ held.updateCount = update_count
    /\ update_count = MaxTicks
    /\ Len(edges) > 1
    /\ incidents # <<>>
    /\ held.edges = edges

\* ---------------------------------------------------------------------------
\* TravellerWorkflow (traveller-api/src/backend/workflows/traveller.py).
\* The workflow runs as one coroutine; a signal handler runs only while the
\* coroutine is suspended at an await (an activity or the timer), so the code
\* between two awaits is one step.  wf_pc is the await the coroutine is
\* suspended at.  plans counts the calls of _calculate_route; unanswered
\* counts the interrupts delivered since the last such call began (neither is
\* a field of the class).  A failed activity attempt is retried by the
\* default retry policy and leaves the workflow where it is.
\* ---------------------------------------------------------------------------

MaxRouteLen == 3
MaxPlans == 3
MaxInterrupts == 2

NodeIds == {"A", "B", "C"}

TravellerId == "traveller-1"

\* lines 39-51, 119: what the fetch_route activity can hand back for a
\* request; graph-api is a separate service, any list of nodes (none included)
\* is a possible "route" entry
fetch_route(start_node, goal_node) ==
    UNION {[1..n -> NodeIds] : n \in 0..MaxRouteLen}

get_stateWithoutIndex ==
    [workflow_id |-> workflow_id, current_node |-> current_node, end_node |-> end_node,
     route |-> route, route_index |-> 0, status |-> status]

\* lines 129-139
get_state ==
    [workflow_id |-> workflow_id, current_node |-> current_node, end_node |-> end_node,
     route |-> route, route_index |-> route_index, status |-> status]

LoopConditionInclusive(ri, r) == ri <= Len(r)

\* line 80
LoopCondition(ri, r) == ri < Len(r)

ArrivedAnywhere(cn, en) == TRUE

ArrivedNever(cn, en) == FALSE

\* line 93
Arrived(cn, en) == cn = en

FlagAfterReplanKept(intr) == intr

\* line 85
FlagAfterReplan(intr) == FALSE

InterruptCheckSkipped(intr) == FALSE

\* line 82
InterruptCheck(intr) == intr

\* lines 80-100: the loop, from its condition to the next await or to the
\* return of run (line 102)
WalkLoop(cn, en, r, ri, intr, st) ==
    IF ~LoopCondition(ri, r)
    THEN [current_node |-> cn, status |-> st, wf_pc |-> "completed"]
    ELSE IF InterruptCheck(intr)
    THEN [current_node |-> cn, status |-> st, wf_pc |-> "plan_traffic"]
    ELSE IF ri >= Len(r)
    THEN [current_node |-> cn, status |-> st, wf_pc |-> "index_error"]
    ELSE IF Arrived(r[ri + 1], en)
    THEN [current_node |-> r[ri + 1], status |-> "Finished", wf_pc |-> "completed"]
    ELSE [current_node |-> r[ri + 1], status |-> st, wf_pc |-> "sleep"]

\* lines 58-65: the workflow object as constructed
TravellerInit ==
    /\ solverIdle
    /\ NoTraffic
    /\ NoReaders
    /\ NoRegistry
    /\ workflow_id = ""
    /\ current_node = ""
    /\ end_node = ""
    /\ route = <<>>
    /\ route_index = 0
    /\ status = "Walking"
    /\ interrupted = FALSE
    /\ wf_pc = "created"
    /\ plans = 0
    /\ unanswered = 0
    /\ queried = <<>>

\* lines 68-77, 107: run starts and awaits the traffic model of the first plan
Run ==
    /\ wf_pc = "created"
    /\ \E start_node \in NodeIds, goal_node \in NodeIds :
          /\ current_node' = start_node
          /\ end_node' = goal_node
    /\ workflow_id' = TravellerId
    /\ wf_pc' = "plan_traffic"
    /\ plans' = 1
    /\ UNCHANGED <<route, route_index, status, interrupted, unanswered>>
    /\ UNCHANGED <<solverVars, trafficVars, readerVars, queried, registryVars>>

\* lines 107-113: the traffic model arrives, the route is requested
TrafficModelFetched ==
    /\ wf_pc = "plan_traffic"
    /\ wf_pc' = "plan_route"
    /\ UNCHANGED <<workflow_id, current_node, end_node, route, route_index, status,
                   interrupted, plans, unanswered>>
    /\ UNCHANGED <<solverVars, trafficVars, readerVars, queried, registryVars>>

\* lines 113-120, then line 85 when this was a replan, then the loop
RouteFetchedFrom(routes) ==
    /\ wf_pc = "plan_route"
    /\ \E r \in routes :
       \E intr \in {IF plans > 1 THEN FlagAfterReplan(interrupted) ELSE interrupted} :
       \E w \in {WalkLoop(current_node, end_node, r, 0, intr, status)} :
          /\ route' = r
          /\ route_index' = 0
          /\ interrupted' = intr
          /\ current_node' = w.current_node
          /\ status' = w.status
          /\ wf_pc' = w.wf_pc
          /\ plans' = IF w.wf_pc = "plan_traffic" THEN plans + 1 ELSE plans
          /\ unanswered' = IF w.wf_pc = "plan_traffic" THEN 0 ELSE unanswered
    /\ UNCHANGED <<workflow_id, end_node>>
    /\ UNCHANGED <<solverVars, trafficVars, readerVars, queried, registryVars>>

RouteFetched == RouteFetchedFrom(fetch_route(current_node, end_node))

\* lines 99-100, then the loop: the timer fires
Wake ==
    /\ wf_pc = "sleep"
    /\ \E w \in {WalkLoop(current_node, end_node, route, route_index + 1, interrupted, status)} :
          /\ route_index' = route_index + 1
          /\ current_node' = w.current_node
          /\ status' = w.status
          /\ wf_pc' = w.wf_pc
          /\ plans' = IF w.wf_pc = "plan_traffic" THEN plans + 1 ELSE plans
          /\ unanswered' = IF w.wf_pc = "plan_traffic" THEN 0 ELSE unanswered
    /\ UNCHANGED <<workflow_id, end_node, route, interrupted>>
    /\ UNCHANGED <<solverVars, trafficVars, readerVars, queried, registryVars>>

\* lines 123-127: the signal reaches a running workflow
Interrupt ==
    /\ wf_pc \in {"plan_traffic", "plan_route", "sleep"}
    /\ plans < MaxPlans
    /\ unanswered < MaxInterrupts
    /\ interrupted' = TRUE
    /\ unanswered' = unanswered + 1
    /\ UNCHANGED <<workflow_id, current_node, end_node, route, route_index, status,
                   wf_pc, plans>>
    /\ UNCHANGED <<solverVars, trafficVars, readerVars, queried, registryVars>>

TravellerNext ==
    \/ Run
    \/ TrafficModelFetched
    \/ RouteFetched
    \/ Wake
    \/ Interrupt

SpecTraveller == TravellerInit /\ [][TravellerNext]_vars

Planning == wf_pc \in {"plan_traffic", "plan_route"}

\* C14: the status is Planning from construction on and whenever a route is
\* being computed, Walking or Finished otherwise.
C14_PlanningWhileComputing ==
    /\ wf_pc = "created" => get_state.status = "Planning"
    /\ Planning => get_state.status = "Planning"
    /\ get_state.status \in {"Planning", "Walking", "Finished"}

\* the step in which the timer of line 99 fires
TimerFired == wf_pc = "sleep" /\ route_index' = route_index + 1

\* the step in which the result of fetch_route arrives
RouteArrived == wf_pc = "plan_route" /\ wf_pc' # "plan_route"

\* C15: the status becomes Finished only in a step of the loop that makes
\* current_node equal to end_node, and once it is Finished neither the
\* status nor current_node, route or route_index changes again (so the
\* transition happens at most once).
C15_FinishedOnceAndTerminal ==
    [][/\ (status # "Finished" /\ status' = "Finished") =>
              /\ wf_pc \in {"plan_route", "sleep"}
              /\ current_node' = end_node'
              /\ current_node' = route'[route_index' + 1]
       /\ status = "Finished" =>
              UNCHANGED <<status, current_node, route, route_index>>]_vars

C15_Witness ==
    /\ status = "Finished"
    /\ wf_pc = "completed"
    /\ current_node = end_node
    /\ plans > 1
    /\ route_index > 0

\* C16: route_index stays within 0..len(route) whatever routes the plans
\* return and whenever interrupts arrive, and route[route_index] is never
\* read out of range.
C16_RouteIndexInRange ==
    /\ 0 <= route_index
    /\ route_index <= Len(route)
    /\ wf_pc # "index_error"

C16_Witness ==
    /\ route_index = Len(route)
    /\ Len(route) = MaxRouteLen
    /\ wf_pc = "completed"
    /\ plans > 1

C18_NoInterruptLost == [][current_node' # current_node => unanswered = 0]_vars

\* C19: interrupts delivered between two iterations coalesce: however many
\* are pending, the iteration that sees the flag starts exactly one route
\* computation; when that computation ends with no further interrupt
\* delivered, the flag is down and the loop walks on; and an iteration that
\* finds the flag down never replans.
C19_InterruptsCoalesce ==
    [][/\ (wf_pc = "sleep" /\ wf_pc' = "plan_traffic") =>
              /\ interrupted
              /\ plans' = plans + 1
              /\ unanswered' = 0
       /\ (RouteArrived /\ plans > 1 /\ unanswered = 0) =>
              /\ ~interrupted'
              /\ wf_pc' # "plan_traffic"
              /\ plans' = plans
       /\ (wf_pc = "sleep" /\ ~interrupted) => wf_pc' # "plan_traffic"]_vars

C19_Witness ==
    /\ wf_pc = "sleep"
    /\ interrupted
    /\ unanswered = MaxInterrupts
    /\ plans > 1
    /\ route_index + 1 < Len(route)

\* C20: a plan that yields no route never lets the navigator complete
\* normally while it reports a status other than Finished.
C20_NeverCompletesUnfinished == wf_pc = "completed" => get_state.status = "Finished"

\* ---------------------------------------------------------------------------
\* The get_state query interleaved with the workflow (traveller.py lines
\* 129-139; routes/traveller.py line 95).  A query handler runs, like a signal
\* handler, only while the run coroutine is suspended or over.
\* ---------------------------------------------------------------------------

\* lines 129-139: the query is answered from the fields as they are
Query ==
    /\ wf_pc # "created"
    /\ queried = <<>>
    /\ queried' = get_state
    /\ UNCHANGED <<workflow_id, current_node, end_node, route, route_index, status,
                   interrupted, wf_pc, plans, unanswered>>
    /\ UNCHANGED <<solverVars, trafficVars, readerVars, registryVars>>

QueryNext ==
    \/ TravellerNext
    \/ Query

SpecQuery == TravellerInit /\ [][QueryNext]_vars

\* C21: a get_state query changes no field of the workflow and returns
\* exactly the values the fields have when it is answered, wherever among
\* the steps, replans and interrupts it falls.
C21_QueryReadsOnly ==
    [][queried' # queried =>
          /\ UNCHANGED <<workflow_id, current_node, end_node, route, route_index, status,
                         interrupted>>
          /\ queried'.workflow_id = workflow_id
          /\ queried'.current_node = current_node
          /\ queried'.end_node = end_node
          /\ queried'.route = route
          /\ queried'.route_index = route_index
          /\ queried'.status = status]_vars

C21_Witness ==
    /\ queried # <<>>
    /\ queried.route_index > 0
    /\ queried.status = "Walking"
    /\ status = "Finished"
    /\ plans > 1

\* ---------------------------------------------------------------------------
\* The traveller routes (traveller-api/src/backend/routes/traveller.py) and
\* the workflow executions they reach through the Temporal client.  Each
\* handler is a coroutine that awaits one call per workflow; the executions
\* go on between two awaits.  An execution is kept here by what the routes
\* can see of it: its execution status, whether a signal has raised its
\* flag, and the TravellerState a query returns.
\* ---------------------------------------------------------------------------

MaxTravellers == 2

\* line 25: the uuid4 draws, in the order list_workflows yields them
WorkflowIds == 1..MaxTravellers

\* lines 13-15: the requests the route is called with
StartNodes == {"A"}
EndNodes == {"B"}

ListError == "list_workflows failed"
SignalError == "signal failed"
QueryError == "query failed"

Reply(op, status_code, count, list, detail) ==
    [op |-> op, status |-> status_code, interrupted_count |-> count, travellers |-> list,
     detail |-> detail]

\* the handler returns or raises: its locals are gone
HandlerOver ==
    /\ handler' = "none"
    /\ listed' = <<>>
    /\ call_i' = 0
    /\ interrupted_count' = 0
    /\ travellers' = <<>>
    /\ delivered' = {}

\* lines 60, 88: the ids from i on that the visibility query matches
RECURSIVE Listing(_, _)
Listing(i, running_only) ==
    IF i > MaxTravellers THEN <<>>
    ELSE (IF /\ i \in DOMAIN executions
             /\ (running_only => executions[i].execution_status = "Running")
          THEN <<i>> ELSE <<>>) \o Listing(i + 1, running_only)

OnSignalErrorRaise == "raise"

\* lines 70-71: the except inside the loop of interrupt_travellers
OnSignalError == "continue"

OnQueryErrorRaise == "raise"

\* lines 97-101: the excepts inside the loop of get_travellers
OnQueryError == "continue"

RegistryInit ==
    /\ solverIdle
    /\ NoTraffic
    /\ NoReaders
    /\ NoNavigator
    /\ NoRegistry

\* lines 21-51
create_traveller ==
    /\ Len(executions) < MaxTravellers
    /\ \E start_node \in StartNodes, goal_node \in EndNodes, started \in BOOLEAN :
          IF started
          THEN /\ executions' = Append(executions,
                      [execution_status |-> "Running", interrupted |-> FALSE,
                       state |-> [workflow_id |-> Len(executions) + 1,
                                  current_node |-> start_node, end_node |-> goal_node,
                                  route |-> <<>>, route_index |-> 0, status |-> "Walking"]])
               /\ reply' = Reply("create_traveller", 200, 0, <<>>, "")
          ELSE /\ UNCHANGED executions
               /\ reply' = Reply("create_traveller", 500, 0, <<>>, "start_workflow failed")
    /\ UNCHANGED <<handler, listed, call_i, interrupted_count, travellers, delivered>>
    /\ UNCHANGED <<solverVars, trafficVars, readerVars, navigatorVars>>

\* workflows/traveller.py lines 82-85: a running workflow answers its flag
WorkflowReplans ==
    /\ \E id \in DOMAIN executions :
          /\ executions[id].execution_status = "Running"
          /\ executions[id].interrupted
          /\ executions' = [executions EXCEPT ![id].interrupted = FALSE]
    /\ UNCHANGED <<handler, listed, call_i, interrupted_count, travellers, delivered, reply>>
    /\ UNCHANGED <<solverVars, trafficVars, readerVars, navigatorVars>>

\* workflows/traveller.py lines 89-102: a running workflow reaches its end
\* node and completes
WorkflowCompletes ==
    /\ \E id \in DOMAIN executions :
          /\ executions[id].execution_status = "Running"
          /\ ~executions[id].interrupted
          /\ executions' = [executions EXCEPT
                 ![id].execution_status = "Completed",
                 ![id].state.route = <<executions[id].state.end_node>>,
                 ![id].state.current_node = executions[id].state.end_node,
                 ![id].state.status = "Finished"]
    /\ UNCHANGED <<handler, listed, call_i, interrupted_count, travellers, delivered, reply>>
    /\ UNCHANGED <<solverVars, trafficVars, readerVars, navigatorVars>>

\* an execution is closed from outside (terminated, timed out)
WorkflowFails ==
    /\ \E id \in DOMAIN executions :
          /\ executions[id].execution_status = "Running"
          /\ executions' = [executions EXCEPT ![id].execution_status = "Failed"]
    /\ UNCHANGED <<handler, listed, call_i, interrupted_count, travellers, delivered, reply>>
    /\ UNCHANGED <<solverVars, trafficVars, readerVars, navigatorVars>>

\* lines 53-62: interrupt_travellers lists the running workflows
InterruptTravellersCalled ==
    /\ handler = "none"
    /\ executions # <<>>
    /\ handler' = "interrupt_travellers"
    /\ listed' = Listing(1, TRUE)
    /\ call_i' = 0
    /\ interrupted_count' = 0
    /\ delivered' = {}
    /\ UNCHANGED <<executions, travellers, reply>>
    /\ UNCHANGED <<solverVars, trafficVars, readerVars, navigatorVars>>

\* lines 63-71: one pass of the loop; the signal is accepted only by an
\* execution that is still running, and the call itself can fail
SignalSent ==
    /\ handler = "interrupt_travellers"
    /\ call_i < Len(listed)
    /\ LET id == listed[call_i + 1]
       IN  \E accepted \in (IF executions[id].execution_status = "Running"
                            THEN BOOLEAN ELSE {FALSE}) :
              IF accepted
              THEN /\ executions' = [executions EXCEPT ![id].interrupted = TRUE]
                   /\ interrupted_count' = interrupted_count + 1
                   /\ delivered' = delivered \cup {id}
                   /\ call_i' = call_i + 1
                   /\ UNCHANGED <<handler, reply>>
              ELSE IF OnSignalError = "continue"
              THEN /\ call_i' = call_i + 1
                   /\ UNCHANGED <<executions, interrupted_count, delivered, handler, reply>>
              ELSE /\ handler' = "none"
                   /\ reply' = Reply("interrupt_travellers", 500, 0, <<>>, SignalError)
                   /\ UNCHANGED <<executions, interrupted_count, delivered, call_i>>
    /\ UNCHANGED <<listed, travellers>>
    /\ UNCHANGED <<solverVars, trafficVars, readerVars, navigatorVars>>

\* lines 73-76
InterruptTravellersReturns ==
    /\ handler = "interrupt_travellers"
    /\ call_i = Len(listed)
    /\ HandlerOver
    /\ reply' = Reply("interrupt_travellers", 200, interrupted_count, <<>>, "")
    /\ UNCHANGED executions
    /\ UNCHANGED <<solverVars, trafficVars, readerVars, navigatorVars>>

\* lines 81-90: get_travellers lists every traveller workflow
GetTravellersCalled ==
    /\ handler = "none"
    /\ executions # <<>>
    /\ handler' = "get_travellers"
    /\ listed' = Listing(1, FALSE)
    /\ call_i' = 0
    /\ travellers' = <<>>
    /\ delivered' = {}
    /\ UNCHANGED <<executions, interrupted_count, reply>>
    /\ UNCHANGED <<solverVars, trafficVars, readerVars, navigatorVars>>

\* lines 91-101: one pass of the loop; the query returns the state or raises
QuerySent ==
    /\ handler = "get_travellers"
    /\ call_i < Len(listed)
    /\ LET id == listed[call_i + 1]
       IN  \E answered \in BOOLEAN :
              IF answered
              THEN /\ travellers' = Append(travellers, executions[id].state)
                   /\ delivered' = delivered \cup {id}
                   /\ call_i' = call_i + 1
                   /\ UNCHANGED <<handler, reply>>
              ELSE IF OnQueryError = "continue"
              THEN /\ call_i' = call_i + 1
                   /\ UNCHANGED <<travellers, delivered, handler, reply>>
              ELSE /\ handler' = "none"
                   /\ reply' = Reply("get_travellers", 500, 0, <<>>, QueryError)
                   /\ UNCHANGED <<travellers, delivered, call_i>>
    /\ UNCHANGED <<executions, listed, interrupted_count>>
    /\ UNCHANGED <<solverVars, trafficVars, readerVars, navigatorVars>>

\* line 103
GetTravellersReturns ==
    /\ handler = "get_travellers"
    /\ call_i = Len(listed)
    /\ HandlerOver
    /\ reply' = Reply("get_travellers", 200, 0, travellers, "")
    /\ UNCHANGED executions
    /\ UNCHANGED <<solverVars, trafficVars, readerVars, navigatorVars>>

\* lines 77-79, 104-106: the listing itself raises while the handler iterates
ListingFails ==
    /\ handler # "none"
    /\ call_i < Len(listed)
    /\ HandlerOver
    /\ reply' = Reply(handler, 500, 0, <<>>, ListError)
    /\ UNCHANGED executions
    /\ UNCHANGED <<solverVars, trafficVars, readerVars, navigatorVars>>

RegistryNext ==
    \/ create_traveller
    \/ WorkflowReplans
    \/ WorkflowCompletes
    \/ WorkflowFails
    \/ InterruptTravellersCalled
    \/ SignalSent
    \/ InterruptTravellersReturns
    \/ GetTravellersCalled
    \/ QuerySent
    \/ GetTravellersReturns
    \/ ListingFails

SpecRegistry == RegistryInit /\ [][RegistryNext]_vars

ListedIds == {listed[i] : i \in DOMAIN listed}

\* C22: interrupt_travellers goes through every listed workflow whether or
\* not the signal to an earlier one failed: a failed signal only moves the
\* loop on, a successful one raises that workflow's flag, the handler answers
\* 500 only when the listing itself fails, and the count it returns is the
\* number of workflows whose signal succeeded.
C22_BroadcastSkipsFailures ==
    [][handler = "interrupt_travellers" =>
          /\ call_i' = call_i + 1 =>
                 /\ handler' = "interrupt_travellers"
                 /\ listed[call_i'] \in delivered' =>
                        /\ executions'[listed[call_i']].interrupted
                        /\ interrupted_count' = interrupted_count + 1
                 /\ listed[call_i'] \notin delivered' =>
                        UNCHANGED <<executions, interrupted_count>>
          /\ handler' = "none" =>
                 /\ reply'.status = 500 => reply'.detail = ListError
                 /\ reply'.status = 200 =>
                        /\ call_i = Len(listed)
                        /\ delivered \subseteq ListedIds
                        /\ reply'.interrupted_count = Cardinality(delivered)]_vars

C22_Witness ==
    /\ handler = "interrupt_travellers"
    /\ Len(listed) = MaxTravellers
    /\ call_i = Len(listed)
    /\ delivered = {listed[Len(listed)]}
    /\ interrupted_count = 1
    /\ executions[listed[1]].execution_status = "Running"

StateIds(list) == {list[i].workflow_id : i \in DOMAIN list}

\* C23: get_travellers returns the state of every listed workflow whose
\* query succeeded, in listing order, and leaves out those whose query
\* raised: a failed query only moves the loop on and never touches what was
\* gathered, and the handler answers 500 only when the listing itself fails.
C23_BatchOmitsFailures ==
    [][handler = "get_travellers" =>
          /\ call_i' = call_i + 1 =>
                 /\ handler' = "get_travellers"
                 /\ listed[call_i'] \in delivered' =>
                        travellers' = Append(travellers, executions[listed[call_i']].state)
                 /\ listed[call_i'] \notin delivered' => travellers' = travellers
          /\ handler' = "none" =>
                 /\ reply'.status = 500 => reply'.detail = ListError
                 /\ reply'.status = 200 =>
                        /\ call_i = Len(listed)
                        /\ StateIds(reply'.travellers) = delivered
                        /\ Len(reply'.travellers) = Cardinality(delivered)]_vars

C23_Witness ==
    /\ handler = "get_travellers"
    /\ Len(listed) = MaxTravellers
    /\ call_i = Len(listed)
    /\ delivered = {listed[Len(listed)]}
    /\ Len(travellers) = 1
    /\ travellers[1].workflow_id = listed[Len(listed)]
    /\ executions[listed[1]].execution_status = "Failed"

\* ---------------------------------------------------------------------------
\* update_config under every set of supplied fields (traffic_generator.py
\* lines 403-428, routes/traffic.py lines 18-24 and 205-220).
\* ---------------------------------------------------------------------------

ConfigFields == {"node_count", "update_interval", "base_traffic_level",
                 "traffic_variability", "incident_probability", "road_density"}

\* routes/traffic.py lines 18-24: values the request model lets through;
\* node_count and road_density include the values of the default configuration
\* the generator may currently have
FullConfigRequests ==
    [node_count : 1..MaxNodes, update_interval : {1000}, base_traffic_level : {90},
     traffic_variability : {100}, incident_probability : {0},
     road_density : {DefaultConfig.road_density, 60}]

\* routes/traffic.py line 212: only the fields that are not None are passed on
AllConfigUpdates ==
    {[k \in supplied |-> full[k]] : full \in FullConfigRequests, supplied \in SUBSET ConfigFields}

UpdateConfigAny == UpdateConfigWith(AllConfigUpdates)

ConfigNext == UpdateConfigAny

SpecConfig == TrafficInit /\ [][ConfigNext]_vars

C25_RegeneratesIffStructuralChange ==
    [][config_updates' = config_updates + 1 =>
          LET new_config == response'.arg
              changes(k) == k \in DOMAIN new_config /\ new_config[k] # config[k]
          IN  (response'.status = 200 /\ ~changes("node_count") /\ ~changes("road_density"))
                  => UNCHANGED <<vertices, edges>>]_vars

EdgeEnds == {edges[i].from : i \in DOMAIN edges} \cup {edges[i].to : i \in DOMAIN edges}

\* C26: after every graph generation that completes, at construction or by
\* update_config, with two vertices or more, every vertex is an endpoint of
\* at least one edge, whatever the density filter let through.
C26_NoIsolatedVertex ==
    (Len(vertices) >= 2 /\ response.status # 400)
        => \A i \in DOMAIN vertices : vertices[i].id \in EdgeEnds

\* C27: the edge list, the edge weights and incident flags, and the incident
\* set are written only by a tick: every step that changes edges or
\* incidents is a step of _update_traffic.
C27_OnlyTheTickWrites ==
    [][(edges' # edges \/ incidents' # incidents) => update_count' = update_count + 1]_vars

\* ---------------------------------------------------------------------------
\* stop (traffic_generator.py lines 480-489) called while the update task is
\* suspended.  cancel() raises CancelledError at the await the task is
\* suspended at; "except Exception" (line 462) does not catch it.
\* ---------------------------------------------------------------------------

\* lines 480-489: the task is cancelled where it is and awaited
Stop ==
    /\ tick_pc \in AwaitPoints
    /\ tick_pc' = "stopped"
    /\ UNCHANGED <<tick_i, tick_draw, held, emit_state, notified>>
    /\ UNCHANGED taskVars
    /\ UNCHANGED <<trafficVars, solverVars, navigatorVars, registryVars>>

StopNext ==
    \/ TickNext
    \/ Stop

SpecStop == TrafficInit /\ [][StopNext]_vars

\* the observers the tick in progress, or the tick that was cancelled, has
\* not seen return
Unnotified ==
    IF tick_pc \in {"callback", "stopped"} /\ tick_i > 0
    THEN tick_i..Len(Callbacks) ELSE {}

\* C28: stop lets the tick in flight finish: when the periodic task has
\* ended, the last tick it began has notified every registered observer.
C28_StopLetsTickFinish == tick_pc = "stopped" => Unnotified = {}

\* the position heappop would return under FIFO tie-breaking: the earliest
\* pushed among the entries of minimum distance
FifoPopIndex(h) ==
    CHOOSE i \in DOMAIN h : /\ \A j \in DOMAIN h : h[j][1] >= h[i][1]
                            /\ \A j \in 1..(i - 1) : h[j][1] > h[i][1]

\* C29: when several frontier entries share the minimum distance, the one
\* pushed first is popped first: each iteration of the search removes from
\* the frontier the earliest pushed entry of minimum distance.
C29_TiesPoppedInDiscoveryOrder ==
    [][(pc = "loop" /\ pq # <<>> /\ pq' # pq) =>
          SubSeq(pq', 1, Len(pq) - 1) = RemoveAt(pq, FifoPopIndex(pq))]_vars

\* ---------------------------------------------------------------------------
\* POST /graph/shortest-path (graph-api routes/graph.py lines 8-36): the
\* body is parsed into ShortestPathRequest before the handler runs, and every
\* edge goes through the Edge model (models/graph.py lines 11-18).
\* ---------------------------------------------------------------------------

\* weights as they can stand in a request body: negative, zero (a traffic
\* level clamped to 0.0) and positive
RawWeights == {-1, 0, 1, 2}

RawEdgeKinds ==
    {e \in [from : Range(SmallVertices), to : Range(SmallVertices), weight : RawWeights] :
        e.from # e.to}

RawGraphs ==
    {Graph(SmallVertices, Ascending(S)) :
        S \in {T \in SUBSET RawEdgeKinds : Cardinality(T) <= MaxEdges}}

RequestInvalid == "RequestInvalid"

RequestInit ==
    /\ NoTraffic
    /\ NoReaders
    /\ NoNavigator
    /\ NoRegistry
    /\ graph \in RawGraphs
    /\ start_id \in vertex_map(graph)
    /\ end_id \in vertex_map(graph)
    /\ distances = <<>>
    /\ previous = <<>>
    /\ pq = <<>>
    /\ visited = {}
    /\ pc = "request"
    /\ result = NoResponse
    /\ first_result = NoResponse
    /\ first_graph = graph
    /\ runs = 0

\* models/graph.py line 15 (gt=0), routes/graph.py line 9: a body with an
\* edge the model refuses is answered 422 and the handler is not entered
ParseRequest ==
    /\ pc = "request"
    /\ IF \A e \in Range(graph.edges) : EdgeValid(e)
       THEN /\ pc' = "start"
            /\ UNCHANGED result
       ELSE /\ pc' = "rejected"
            /\ result' = ShortestPathResponse(<<>>, inf, FALSE, RequestInvalid)
    /\ UNCHANGED <<graph, start_id, end_id, distances, previous, pq, visited,
                   first_result, first_graph, runs>>
    /\ UNCHANGED <<trafficVars, readerVars, navigatorVars, registryVars>>

RequestNext ==
    \/ ParseRequest
    \/ Validate
    \/ LoopIteration
    \/ Reconstruct

SpecRequest == RequestInit /\ [][RequestNext]_vars

NonPositiveEdge == \E e \in Range(graph.edges) : e.weight <= 0

\* C30: a graph with an edge of weight <= 0 is rejected and never searched:
\* the request never reaches find_shortest_path and no successful result,
\* with or without that edge on its path, is returned for it.
C30_NonPositiveWeightRejected ==
    NonPositiveEdge =>
        /\ pc \in {"request", "rejected"}
        /\ ~result.success
        /\ pq = <<>>
        /\ pc = "rejected" => result.message = RequestInvalid

C30_Witness ==
    /\ pc = "rejected"
    /\ result.message = RequestInvalid
    /\ start_id # end_id
    /\ \E e \in Range(graph.edges) : e.from = start_id /\ e.to = end_id /\ e.weight = 0
    /\ \A e \in Range(graph.edges) : e.weight >= 0

\* ---------------------------------------------------------------------------
\* The generator on a graph wide enough for two roads without a common
\* junction: TrafficGenerator({'node_count': MaxNodes + 1}).
\* ---------------------------------------------------------------------------
WideNodeCount == MaxNodes + 1

\* TrafficGenerator(config) with node_count = WideNodeCount: __init__
WideInit ==
    /\ solverIdle
    /\ NoReaders
    /\ NoNavigator
    /\ NoRegistry
    /\ config = [DefaultConfig EXCEPT !.node_count = WideNodeCount]
    /\ \E g \in {_initialize_graph(config, rnd) : rnd \in GenerationDraws} :
          /\ g.ok
          /\ vertices = g.vertices
          /\ edges = g.edges
    /\ incidents = <<>>
    /\ update_count = 0
    /\ now = 0
    /\ incident_seq = 0
    /\ config_updates = 0
    /\ response = NoCall

WideNext ==
    \/ CreateIncident
    \/ ClearIncident
    \/ AdvanceTime

SpecWide == WideInit /\ [][WideNext]_vars

\* a step in which POST /incident created an incident
IncidentCreated ==
    /\ response'.op = "create_incident"
    /\ response'.status = 200
    /\ incident_seq' = incident_seq + 1
    /\ update_count' = update_count

\* edges e and o have a vertex in common
SharesEndpoint(e, o) == {e.from, e.to} \cap {o.from, o.to} # {}

\* C31: a successful create_incident with clamped severity s sets the weight
\* of the target edge to min(1, w + 0.8 * s), the weight of every other edge
\* sharing an endpoint with it to min(1, w' + 0.5 * s), and leaves the weight
\* of every edge sharing no endpoint with it as it was.
C31_IncidentEffect ==
    [][IncidentCreated =>
         \A m \in DOMAIN edges :
            10 * edges'[m].weight =
               IF m = CreatedEdge
               THEN Min(10 * Unit, 10 * edges[m].weight + 8 * CreatedSeverity)
               ELSE IF SharesEndpoint(edges[CreatedEdge], edges[m])
               THEN Min(10 * Unit, 10 * edges[m].weight + 5 * CreatedSeverity)
               ELSE 10 * edges[m].weight]_vars

\* an incident was just created on a road that has a road at one of its
\* junctions and a road at neither
C31_Witness ==
    /\ response.op = "create_incident"
    /\ response.status = 200
    /\ update_count = 0
    /\ Len(incidents) = 1
    /\ LET e == edges[FindEdge(edges, response.arg)]
       IN  /\ \E m \in DOMAIN edges : edges[m].id # e.id /\ SharesEndpoint(e, edges[m])
           /\ \E m \in DOMAIN edges : ~SharesEndpoint(e, edges[m])

\* ---------------------------------------------------------------------------
\* The end of an incident: clear_incident and the expiry pass of a tick
\* ---------------------------------------------------------------------------
\* a step in which DELETE /incident/{id} removed an incident
IncidentCleared ==
    /\ response'.op = "clear_incident"
    /\ response'.status = 200
    /\ response' # response
    /\ update_count' = update_count

\* a step that is one tick
Ticked == update_count' = update_count + 1

IncidentIds(incs) == {incs[i].id : i \in DOMAIN incs}

\* edge edge_id, if es has it, is without incident flag and severity
EdgeReset(es, edge_id) ==
    \A m \in DOMAIN es :
        es[m].id = edge_id => ~es[m].isIncident /\ es[m].incidentSeverity = 0

\* C32: an incident destroyed by a successful clear_incident or by the
\* expiry pass of a tick (now >= endTime) is gone from the incident set and
\* its edge has isIncident = false and incidentSeverity = 0 afterwards; the
\* expiry pass removes no incident whose endTime has not passed.
C32_DestructionResetsEdge ==
    [][/\ IncidentCleared =>
            LET incident == incidents[FindIncident(incidents, response'.arg)]
            IN  /\ incident.id \notin IncidentIds(incidents')
                /\ EdgeReset(edges', incident.edgeId)
       /\ Ticked =>
            \A i \in DOMAIN incidents :
                IF now >= incidents[i].endTime
                THEN /\ incidents[i].id \notin IncidentIds(incidents')
                     /\ EdgeReset(edges', incidents[i].edgeId)
                ELSE incidents[i] \in Range(incidents')]_vars

\* a tick has removed the incident POST /incident had created, at the very
\* time it ended
C32_Witness ==
    /\ response.op = "create_incident"
    /\ response.status = 200
    /\ incident_seq = 1
    /\ incidents = <<>>
    /\ update_count = 1
    /\ now = ClockStep
    /\ config_updates = 0

\* the incidents that name edge edge_id
IncidentsOn(edge_id) == {i \in DOMAIN incidents : incidents[i].edgeId = edge_id}

\* C33: in every reachable state of the traffic generator, also after a
\* config update that regenerates the graph while incidents are active, an
\* edge has isIncident = true if and only if exactly one incident names its
\* id, and every incident names an edge there is.
C33_FlagIffOneIncident ==
    /\ \A m \in DOMAIN edges :
          edges[m].isIncident <=> Cardinality(IncidentsOn(edges[m].id)) = 1
    /\ \A i \in DOMAIN incidents : incidents[i].edgeId \in EdgeIds

\* ---------------------------------------------------------------------------
\* The replan of an interrupted traveller (traveller.py lines 80-86)
\* ---------------------------------------------------------------------------
\* the step in which the route of a replan arrives: lines 119-120, then
\* line 85, the continue of line 86 and the loop again
ReplanArrived == RouteArrived /\ plans > 1

PathRoutes(start_node, goal_node) ==
    {r \in fetch_route(start_node, goal_node) :
        Len(r) >= 1 /\ r[1] = start_node /\ r[Len(r)] = goal_node}

RoutePathFetched == RouteFetchedFrom(PathRoutes(current_node, end_node))

PathNext ==
    \/ Run
    \/ TrafficModelFetched
    \/ RoutePathFetched
    \/ Wake
    \/ Interrupt

SpecPath ==
    /\ TravellerInit
    /\ [][PathNext]_vars
    /\ WF_vars(Run)
    /\ WF_vars(TrafficModelFetched)
    /\ WF_vars(RoutePathFetched)
    /\ WF_vars(Wake)

\* C35: when every computed route is a path from the current node to
\* end_node and interrupts arrive finitely often, the traveller eventually
\* has status Finished with current_node = end_node, and run has returned:
\* it takes no further step.
C35_EventuallyFinished ==
    <>[](status = "Finished" /\ current_node = end_node /\ wf_pc = "completed")

\* the traveller finished on a route of several nodes fetched by a replan
C35_Witness ==
    /\ status = "Finished"
    /\ current_node = end_node
    /\ wf_pc = "completed"
    /\ plans > 1
    /\ Len(route) > 1
    /\ route_index = Len(route) - 1

\* C36: in every reachable state of a traveller, status = Finished implies
\* current_node = end_node; and when run has returned its final state, that
\* state has status = Finished, also after a route without end_node has
\* been walked to its last node.
C36_FinishedMeansArrived ==
    /\ status = "Finished" => current_node = end_node
    /\ (wf_pc = "completed" /\ route # <<>>) => get_state.status = "Finished"

\* ---------------------------------------------------------------------------
\* The observers of a tick (_emit_update, lines 453-463)
\* ---------------------------------------------------------------------------
\* the tick under way has called every observer once, in registration order,
\* each with the state taken after the loop and the expiry of this tick
AllNotified ==
    /\ Len(notified) = Len(Callbacks)
    /\ \A k \in DOMAIN notified :
          /\ notified[k].observer = k
          /\ notified[k].state.updateCount = update_count
          /\ notified[k].state.edges = edges
          /\ notified[k].state.incidents = incidents

\* C37: every tick, after its edge updates and its expiry pass, hands the
\* post-tick snapshot to every registered observer in registration order;
\* an observer that raises an exception keeps neither the remaining
\* observers from being called nor the tick from ending, and the update
\* task goes on to its sleep and its later ticks.
C37_ObserversAllNotified ==
    /\ tick_pc # "dead"
    /\ (tick_pc = "idle" /\ update_count > 0) => AllNotified
    /\ \A k \in DOMAIN notified :
          notified[k].observer = k /\ notified[k].state = emit_state

\* the second tick is over and has called both observers although the first
\* of them raised
C37_Witness ==
    /\ tick_pc = "idle"
    /\ update_count = 2
    /\ Len(notified) = Len(Callbacks)
    /\ notified[1].outcome = "raises"
    /\ notified[2].outcome = "returns"

\* ---------------------------------------------------------------------------
\* start and stop (lines 465-489) called from any task of the event loop.
\* start holds no await; stop is suspended at 'await self.update_task'
\* (line 484) until the cancelled task has ended, and other calls run
\* meanwhile.  A task of tasks is "sleeping" (alive, at an await of
\* update_loop), "cancelling" (cancel() was called, the CancelledError is
\* not yet raised in it) or "done".
\* ---------------------------------------------------------------------------
\* line 467 and line 482: self.update_task and not self.update_task.done()
Running == update_task # 0 /\ tasks[update_task] # "done"

LiveTasks == {t \in DOMAIN tasks : tasks[t] # "done"}

\* start, lines 465-478
StartCalled ==
    /\ IF Running
       THEN UNCHANGED <<update_task, tasks>>
       ELSE /\ Len(tasks) < MaxTasks
            /\ tasks' = Append(tasks, "sleeping")
            /\ update_task' = Len(tasks) + 1
    /\ UNCHANGED <<stopping, tick_pc, tick_i, tick_draw, held, emit_state, notified>>
    /\ UNCHANGED <<trafficVars, solverVars, navigatorVars, registryVars>>

\* stop, lines 480-484: cancel() and the await of the task
StopCalled ==
    /\ IF Running
       THEN /\ tasks' = [tasks EXCEPT ![update_task] = "cancelling"]
            /\ stopping' = stopping \cup {update_task}
       ELSE UNCHANGED <<tasks, stopping>>
    /\ UNCHANGED <<update_task, tick_pc, tick_i, tick_draw, held, emit_state, notified>>
    /\ UNCHANGED <<trafficVars, solverVars, navigatorVars, registryVars>>

\* the CancelledError is raised in the task at its await and ends it
TaskCancelled ==
    /\ \E t \in DOMAIN tasks :
          /\ tasks[t] = "cancelling"
          /\ tasks' = [tasks EXCEPT ![t] = "done"]
    /\ UNCHANGED <<update_task, stopping, tick_pc, tick_i, tick_draw, held, emit_state,
                   notified>>
    /\ UNCHANGED <<trafficVars, solverVars, navigatorVars, registryVars>>

\* stop, lines 484-489: the awaited task has ended, stop resumes
StopReturns ==
    /\ \E t \in stopping :
          /\ tasks[t] = "done"
          /\ stopping' = stopping \ {t}
    /\ update_task' = 0
    /\ UNCHANGED <<tasks, tick_pc, tick_i, tick_draw, held, emit_state, notified>>
    /\ UNCHANGED <<trafficVars, solverVars, navigatorVars, registryVars>>

\* lines 474-476: a task that is alive wakes up and runs a tick
TaskTicks ==
    /\ \E t \in DOMAIN tasks : tasks[t] = "sleeping"
    /\ UpdateTraffic

TasksNext ==
    \/ StartCalled
    \/ StopCalled
    \/ TaskCancelled
    \/ StopReturns
    \/ TaskTicks

SpecTasks == TrafficInit /\ [][TasksNext]_vars

\* C38: under any start and stop calls at most one periodic tick task is
\* alive at any time: start while a task runs creates no second task, stop
\* cancels the running task, and start after stop creates exactly one new
\* task, so that two ticks never run interleaved.
C38_AtMostOneTask == Cardinality(LiveTasks) <= 1

\* C39: graph generation ends without an error for every allowed vertex
\* count and every outcome of its random draws, and in the generated graph
\* every edge joins two distinct vertices of the graph (no self-loop, also
\* when there are fewer vertices than neighbours to connect), edge ids are
\* unique and no two edges join the same unordered pair of vertices.
C39_GenerationSound ==
    /\ response.error # "OverflowError"
    /\ \A m \in DOMAIN edges :
          /\ edges[m].from # edges[m].to
          /\ {edges[m].from, edges[m].to} \subseteq {vertices[p].id : p \in DOMAIN vertices}
    /\ \A m, k \in DOMAIN edges :
          m # k => /\ edges[m].id # edges[k].id
                   /\ {edges[m].from, edges[m].to} # {edges[k].from, edges[k].to}

\* ---------------------------------------------------------------------------
\* The tick statement by statement together with the incident routes, which
\* run while the update task is suspended
\* ---------------------------------------------------------------------------
CreateIncidentBetween == tick_pc \in AwaitPoints /\ CreateIncident

ClearIncidentBetween == tick_pc \in AwaitPoints /\ ClearIncident

DestroyNext ==
    \/ TickStart
    \/ TickEdge
    \/ TickExpire
    \/ TickEmit
    \/ TickNotifyNext
    \/ TickSleep
    \/ AdvanceTime
    \/ CreateIncidentBetween
    \/ ClearIncidentBetween

SpecDestroy == TrafficInit /\ [][DestroyNext]_vars

\* the step of line 191: the expiry pass of a tick
ExpiryPass == tick_pc = "loop" /\ tick_pc' = "emit"

\* the incidents a step removes
Destroyed == {i \in DOMAIN incidents : incidents[i].id \notin IncidentIds(incidents')}

\* C40: destroying an incident (clear_incident or the expiry pass of a
\* tick) changes only the incident set and isIncident / incidentSeverity of
\* the edge the incident is bound to: every edge keeps its weight, speed
\* and vehicleCount, so the raise the creation gave to the target and its
\* connected edges is not taken back by the destruction.
C40_DestructionKeepsWeights ==
    [][(IncidentCleared \/ ExpiryPass) =>
         /\ DOMAIN edges' = DOMAIN edges
         /\ \A m \in DOMAIN edges :
               /\ edges'[m] = [edges[m] EXCEPT
                                 !.isIncident = edges'[m].isIncident,
                                 !.incidentSeverity = edges'[m].incidentSeverity]
               /\ edges'[m] # edges[m] =>
                     \E i \in Destroyed : incidents[i].edgeId = edges[m].id
         /\ UNCHANGED <<config, vertices, update_count, incident_seq>>]_vars

\* the expiry pass of a tick has just removed the incident POST /incident
\* had created, whose edge still has a weight of at least the raise
C40_Witness ==
    /\ tick_pc = "emit"
    /\ response.op = "create_incident"
    /\ response.status = 200
    /\ incident_seq = 1
    /\ incidents = <<>>
    /\ edges[FindEdge(edges, response.arg)].weight >= 40

====
